---- MODULE Spec2Model ----
(***************************************************************************)
(* BioDiscovery AI: the multi-level cache (app/core/cache.py) and the      *)
(* three-node retrieval pipeline (app/graph/nodes.py, workflow.py).        *)
(*                                                                         *)
(* Specifications:                                                         *)
(*   SpecCache      one LRUCache level driven sequentially (get/set/clear  *)
(*                  and the passing of time)                               *)
(*   SpecCacheConc  one LRUCache level called from several threads, every  *)
(*                  statement of get/set/clear a step of its own           *)
(*   Spec           one run of run_recommendation: encode, search, rank    *)
(*   SpecMmr        _apply_mmr applied to bounded candidate lists, and     *)
(*                  applied again to its own output                        *)
(*   SpecGraph      _build_graph applied to bounded reranked results       *)
(*   SpecLive       Spec with the nodes always getting to run              *)
(*   SpecSteps      one run of the workflow with every call of node_search *)
(*                  a start and a return of its own                        *)
(*   SpecRepeat     node_encode serving several requests in a row on one   *)
(*                  embeddings cache                                       *)
(*   SpecStats      threads calling MultiLevelCache.get, the read and the  *)
(*                  write of a hit or miss counter steps of their own      *)
(***************************************************************************)
EXTENDS Integers, Sequences, FiniteSets, TLC

None == "None"

(***************************************************************************)
(* Bounds of the model.                                                    *)
(***************************************************************************)
\* stand-in for LRUCache.max_size (10000 / 1000 / 500 in the program)
CacheMaxSize == 2
\* the clock runs over 0..MaxTime
MaxTime == 2
\* the one TTL duration of the model, in clock ticks (3600 s in the program)
TtlUnit == 1

Keys == {"k1", "k2", "k3"}
Values == {"v1", "v2"}
\* TTLs (None is <<>>, n seconds is <<n>>); the program only ever passes positive durations (3600)
NoTtl == <<>>
Ttls == {NoTtl, <<TtlUnit>>}
\* the default_ttl of a level: None (embeddings, llm) or a duration (results)
DefaultTtls == {NoTtl, <<TtlUnit>>}

VARIABLES
    \* ---- one LRUCache level (SpecCache) ----
    lru,        \* [cache: Seq([k, v]), timestamps: key -> time, ttls: key -> ttl]
    default_ttl,\* LRUCache.default_ttl of the level
    now,        \* time.time()
    used,       \* ghost: stored keys, least recently used (set or get-hit) first
    lastOp,     \* ghost: the last call, what it returned and what it met
    \* ---- threads calling the level (SpecCacheConc) ----
    lock,       \* LRUCache._lock: the thread holding it, or None
    tpc,        \* per thread: the statement it is at
    targ,       \* per thread: the call it is making [op, key, val, ttl]
    tloc,       \* per thread: locals [rmkey, cont, tread]
    tret,       \* per thread: the value its call returns
    snap,       \* ghost, per thread: the level as it was when the thread took the lock
    \* ---- threads calling MultiLevelCache.get (SpecStats) ----
    levels,     \* level name -> the LRUCache of the level
    mstats,     \* [hits: level -> count, misses: level -> count]
    completed,  \* ghost: level -> the get calls on it that have returned
    \* ---- diversity reranking (SpecMmr) ----
    mmr_pc,     \* "in": inputs drawn, "out": _apply_mmr applied, "again": applied to its output
    mmr_in,     \* results: the candidate list, in the order the search returned it
    mmr_env,    \* [lam, k, sim, named]: mmr_lambda, target_k, and what the encoder gives
    mmr_out,    \* the list _apply_mmr returned
    mmr_out2,   \* the list _apply_mmr returned for mmr_out with target_k = len(mmr_out)
    \* ---- neighbor graph (SpecGraph) ----
    graph_pc,   \* "in": inputs drawn, "out": _build_graph applied
    graph_in,   \* [results, score_threshold, edge_threshold]
    graph_out,  \* [nodes, edges, node_payloads] as _build_graph left them
    \* ---- the calls of node_search one by one (SpecSteps) ----
    step_pc,    \* the node that runs: "encode", "search", "rank_enrich", or "done"
    step_plan,  \* the calls node_search makes in this run, in program order
    step_i,     \* how many of them have been started
    inflight,   \* the calls (indices of step_plan) started and not yet returned
    stage_runs, \* ghost: how many times each node has run
    \* ---- recommendation pipeline (Spec) ----
    pc,         \* the node that runs next: "encode", "search", "rank_enrich", or "done"
    req,        \* the arguments of run_recommendation
    world,      \* what the run meets: the vector store's content, the encoders that raise
    st,         \* the GraphState the nodes pass along
    calls,      \* ghost: the vector-store and LLM calls made so far, in order
    emb_cache,  \* the embeddings level of the cache: key -> cached vector
    response    \* <<>> until run_recommendation returns, then <<the SearchResponse>>

cacheVars == <<lru, default_ttl, now>>
seqVars == <<used, lastOp>>
concVars == <<lock, tpc, targ, tloc, tret, snap>>
statVars == <<levels, mstats, completed>>
mmrVars == <<mmr_pc, mmr_in, mmr_env, mmr_out, mmr_out2>>
graphVars == <<graph_pc, graph_in, graph_out>>
stepVars == <<step_pc, step_plan, step_i, inflight, stage_runs>>
pipeVars == <<pc, req, world, st, calls, emb_cache, response>>
vars == <<lru, default_ttl, now, used, lastOp, lock, tpc, targ, tloc, tret, snap,
          levels, mstats, completed,
          mmr_pc, mmr_in, mmr_env, mmr_out, mmr_out2,
          graph_pc, graph_in, graph_out,
          step_pc, step_plan, step_i, inflight, stage_runs,
          pc, req, world, st, calls, emb_cache, response>>

\* what the actions of each specification leave alone
notSeq == <<concVars, statVars, mmrVars, graphVars, stepVars, pipeVars>>
notConc == <<seqVars, statVars, mmrVars, graphVars, stepVars, pipeVars>>
notMmr == <<cacheVars, seqVars, concVars, statVars, graphVars, stepVars, pipeVars>>
notGraph == <<cacheVars, seqVars, concVars, statVars, mmrVars, stepVars, pipeVars>>
notPipe == <<cacheVars, seqVars, concVars, statVars, mmrVars, graphVars, stepVars>>
notSteps == <<cacheVars, seqVars, concVars, statVars, mmrVars, graphVars, pipeVars>>
notStats == <<cacheVars, seqVars, lock, snap, mmrVars, graphVars, stepVars, pipeVars>>

(***************************************************************************)
(* Dictionaries are functions on the set of their keys.                    *)
(***************************************************************************)
DictPop(d, key) == [k \in (DOMAIN d) \ {key} |-> d[k]]
DictPut(d, key, x) == [k \in (DOMAIN d) \cup {key} |-> IF k = key THEN x ELSE d[k]]
EmptyDict == [k \in {} |-> None]

\* OrderedDict helpers: the cache is a sequence of [k, v] entries, oldest first
OdKeys(od) == {od[i].k : i \in 1..Len(od)}
OdGet(od, key) == (CHOOSE i \in 1..Len(od) : od[i].k = key)
OdPop(od, key) ==
    LET Keep(e) == e.k # key
    IN  SelectSeq(od, Keep)
OdMoveToEnd(od, key) == Append(OdPop(od, key), od[OdGet(od, key)])

EmptyLru == [cache |-> <<>>, timestamps |-> EmptyDict, ttls |-> EmptyDict]

\* LRUCache._remove
LruRemove(L, key) ==
    [cache |-> OdPop(L.cache, key),
     timestamps |-> DictPop(L.timestamps, key),
     ttls |-> DictPop(L.ttls, key)]

\* the TTL test of LRUCache.get: age > ttl, for an entry that has a ttl
LruExpired(L, key, t) ==
    LET ttl == IF key \in DOMAIN L.ttls THEN L.ttls[key] ELSE NoTtl
        ts == IF key \in DOMAIN L.timestamps THEN L.timestamps[key] ELSE 0
    IN  ttl # NoTtl /\ (t - ts) > ttl[1]

\* a get that forgets the TTL test
LruGetNoTtl(L, key, t) ==
    IF key \notin OdKeys(L.cache)
    THEN [L |-> L, ret |-> None]
    ELSE [L |-> [L EXCEPT !.cache = OdMoveToEnd(L.cache, key)],
          ret |-> L.cache[OdGet(L.cache, key)].v]

\* a get that forgets move_to_end (the store degrades to first-in first-out)
LruGetNoTouch(L, key, t) ==
    IF key \notin OdKeys(L.cache)
    THEN [L |-> L, ret |-> None]
    ELSE IF LruExpired(L, key, t)
         THEN [L |-> LruRemove(L, key), ret |-> None]
         ELSE [L |-> L, ret |-> L.cache[OdGet(L.cache, key)].v]

\* LRUCache.get: the level after the call and the value returned
LruGet(L, key, t) ==
    IF key \notin OdKeys(L.cache)
    THEN [L |-> L, ret |-> None]
    ELSE IF LruExpired(L, key, t)
         THEN [L |-> LruRemove(L, key), ret |-> None]
         ELSE [L |-> [L EXCEPT !.cache = OdMoveToEnd(L.cache, key)],
               ret |-> L.cache[OdGet(L.cache, key)].v]

\* a set that never evicts
LruEvictNothing(L, max_size) == L

\* the eviction loop of LRUCache.set: drop the oldest while at capacity
RECURSIVE LruEvict(_, _)
LruEvict(L, max_size) ==
    IF Len(L.cache) >= max_size /\ Len(L.cache) > 0
    THEN LruEvict(LruRemove(L, L.cache[1].k), max_size)
    ELSE L

\* a set that keeps the entry already stored under the key
LruSetKeepOld(L, key, value, ttl, t, max_size, dttl) ==
    IF key \in OdKeys(L.cache)
    THEN [L EXCEPT !.cache = OdMoveToEnd(L.cache, key)]
    ELSE LET L2 == LruEvict(L, max_size)
         IN  [cache |-> Append(L2.cache, [k |-> key, v |-> value]),
              timestamps |-> DictPut(L2.timestamps, key, t),
              ttls |-> DictPut(L2.ttls, key, IF ttl # NoTtl THEN ttl ELSE dttl)]

\* LRUCache.set
LruSet(L, key, value, ttl, t, max_size, dttl) ==
    LET L1 == IF key \in OdKeys(L.cache) THEN LruRemove(L, key) ELSE L
        L2 == LruEvict(L1, max_size)
    IN  [cache |-> Append(L2.cache, [k |-> key, v |-> value]),
         timestamps |-> DictPut(L2.timestamps, key, t),
         ttls |-> DictPut(L2.ttls, key, IF ttl # NoTtl THEN ttl ELSE dttl)]

\* LRUCache.clear
LruClear(L) == EmptyLru

(***************************************************************************)
(* SpecCache: one level, called sequentially.                              *)
(***************************************************************************)
\* would get(key) return a value at time t (without performing it)
IsHit(L, key, t) == LruGet(L, key, t).ret # None

SeqRemove(s, x) ==
    LET Keep(e) == e # x
    IN  SelectSeq(s, Keep)

NoOp == [op |-> "init", key |-> None, val |-> None, ret |-> None,
         wasStored |-> FALSE, wasAge |-> 0, wasTtl |-> NoTtl,
         afterSet |-> None, atCapacity |-> FALSE, lruKey |-> None,
         keysBefore |-> {}, hitsBefore |-> {}]

\* the reranking is not running
MmrIdle ==
    /\ mmr_pc = "off"
    /\ mmr_in = <<>>
    /\ mmr_env = [lam |-> 7, k |-> 1, sim |-> <<>>, named |-> {}]
    /\ mmr_out = <<>>
    /\ mmr_out2 = <<>>

Stages == {"encode", "search", "rank_enrich"}

\* the graph construction is not running, no workflow is stepped through
GraphIdle ==
    /\ step_pc = "off"
    /\ step_plan = <<>>
    /\ step_i = 0
    /\ inflight = {}
    /\ stage_runs = [n \in Stages |-> 0]
    /\ graph_pc = "off"
    /\ graph_in = [results |-> <<>>, score_threshold |-> 50, edge_threshold |-> 20]
    /\ graph_out = [nodes |-> <<>>, edges |-> <<>>, node_payloads |-> <<>>]

COLLECTIONS == <<"proteins", "articles", "images", "experiments", "structures">>
CollectionSet == {COLLECTIONS[i] : i \in 1..Len(COLLECTIONS)}

\* create_initial_state: the fields the nodes fill in, before any node ran
InitialState ==
    [input_type |-> <<"unknown">>, search_case |-> 1, has_text |-> FALSE,
     modalities |-> <<>>, vectors |-> EmptyDict, sparse_vectors |-> EmptyDict,
     phase1_results |-> EmptyDict, phase3_results |-> EmptyDict,
     all_results |-> EmptyDict, bridge_output |-> <<>>, alignment |-> None,
     search_strategy |-> "CAS_1", reranked_results |-> EmptyDict, summary |-> "",
     \* not a field of the state: the mmr_lambda each _apply_mmr call was given
     mmr_lambda |-> EmptyDict]

\* no run of run_recommendation is in progress
PipeIdle ==
    /\ pc = "off"
    /\ req = [text |-> None, sequence |-> None, image_path |-> None,
              structure_path |-> None, top_k |-> 1, filter_by_genes |-> TRUE,
              include_summary |-> TRUE, include_design_candidates |-> TRUE]
    /\ world = [store |-> [points |-> 0, tagged |-> 0, failing |-> {}], down |-> {}]
    /\ st = InitialState
    /\ calls = <<>>
    /\ emb_cache = EmptyDict
    /\ response = <<>>

Threads == {"t1", "t2"}
NoCall == [op |-> "none", key |-> None, val |-> None, ttl |-> NoTtl]
NoLocals == [rmkey |-> None, cont |-> "none", tread |-> 0]

\* the levels of MultiLevelCache the statistics are kept for in the model
Levels == {"embeddings", "results"}

ConcIdle ==
    /\ levels = [l \in Levels |-> EmptyLru]
    /\ mstats = [hits |-> [l \in Levels |-> 0], misses |-> [l \in Levels |-> 0]]
    /\ completed = [l \in Levels |-> 0]
    /\ lock = None
    /\ tpc = [t \in Threads |-> "idle"]
    /\ targ = [t \in Threads |-> NoCall]
    /\ tloc = [t \in Threads |-> NoLocals]
    /\ tret = [t \in Threads |-> None]
    /\ snap = [t \in Threads |-> EmptyLru]

InitCache ==
    /\ ConcIdle
    /\ MmrIdle
    /\ GraphIdle
    /\ PipeIdle
    /\ lru = EmptyLru
    /\ default_ttl \in DefaultTtls
    /\ now = 0
    /\ used = <<>>
    /\ lastOp = NoOp

CacheGet(key) ==
    LET r == LruGet(lru, key, now)
    IN  /\ lru' = r.L
        /\ used' = IF r.ret # None THEN Append(SeqRemove(used, key), key)
                   ELSE SeqRemove(used, key)
        /\ lastOp' = [NoOp EXCEPT !.op = "get", !.key = key, !.ret = r.ret,
                        !.wasStored = key \in OdKeys(lru.cache),
                        !.wasAge = IF key \in DOMAIN lru.timestamps
                                   THEN now - lru.timestamps[key] ELSE 0,
                        !.wasTtl = IF key \in DOMAIN lru.ttls THEN lru.ttls[key] ELSE NoTtl,
                        !.afterSet = IF lastOp.op = "set" /\ lastOp.key = key
                                     THEN lastOp.val ELSE None]
        /\ UNCHANGED <<default_ttl, now, notSeq>>

CacheSet(key, value, ttl) ==
    /\ lru' = LruSet(lru, key, value, ttl, now, CacheMaxSize, default_ttl)
    /\ used' = LET u == SeqRemove(used, key)
               IN  Append(IF Len(u) >= CacheMaxSize THEN Tail(u) ELSE u, key)
    /\ lastOp' = [NoOp EXCEPT !.op = "set", !.key = key, !.val = value,
                    !.wasStored = key \in OdKeys(lru.cache),
                    !.atCapacity = Len(lru.cache) = CacheMaxSize,
                    !.lruKey = IF used = <<>> THEN None ELSE Head(used),
                    !.keysBefore = OdKeys(lru.cache),
                    !.hitsBefore = {k \in Keys : IsHit(lru, k, now)}]
    /\ UNCHANGED <<default_ttl, now, notSeq>>

CacheClear ==
    /\ lru' = LruClear(lru)
    /\ used' = <<>>
    /\ lastOp' = [NoOp EXCEPT !.op = "clear"]
    /\ UNCHANGED <<default_ttl, now, notSeq>>

\* time passes between calls
Tick ==
    /\ now < MaxTime
    /\ now' = now + 1
    /\ lastOp' = [NoOp EXCEPT !.op = "tick"]
    /\ UNCHANGED <<lru, default_ttl, used, notSeq>>

NextCache ==
    \/ \E key \in Keys : CacheGet(key)
    \/ \E key \in Keys, value \in Values, ttl \in Ttls : CacheSet(key, value, ttl)
    \/ CacheClear
    \/ Tick

SpecCache == InitCache /\ [][NextCache]_vars

(***************************************************************************)
(* Claims about one cache level (checked under SpecCache).                 *)
(***************************************************************************)
StoredKeys == OdKeys(lru.cache)

\* C6: cache round trip. A get(key) that directly follows set(key, v) on the
\* same level (no other call and no passing of time in between) returns v,
\* whatever the level held before.
C6_RoundTrip ==
    (lastOp.op = "get" /\ lastOp.afterSet # None) => lastOp.ret = lastOp.afterSet

\* the round trip overwrote an older value of the key on a full level
C6_Witness ==
    /\ lastOp.op = "get" /\ lastOp.afterSet = "v2" /\ lastOp.ret = "v2"
    /\ Len(lru.cache) = CacheMaxSize
    /\ now > 0

\* C7: cache expiry. A get of a stored entry whose TTL (explicit or the
\* level's default) has elapsed (age > ttl) returns a miss and removes the
\* entry from all three maps; a get of a stored entry without TTL is a hit
\* at any age.
C7_Expiry ==
    (lastOp.op = "get" /\ lastOp.wasStored) =>
        /\ (lastOp.wasTtl # NoTtl /\ lastOp.wasAge > lastOp.wasTtl[1]) =>
                /\ lastOp.ret = None
                /\ lastOp.key \notin StoredKeys
                /\ lastOp.key \notin DOMAIN lru.timestamps
                /\ lastOp.key \notin DOMAIN lru.ttls
        /\ lastOp.wasTtl = NoTtl => lastOp.ret # None

\* an entry that took the level's default TTL has expired and was removed by the get
C7_Witness ==
    /\ lastOp.op = "get" /\ lastOp.wasStored
    /\ lastOp.wasTtl = default_ttl /\ default_ttl # NoTtl
    /\ lastOp.wasAge > lastOp.wasTtl[1]
    /\ lastOp.ret = None /\ lastOp.key \notin StoredKeys

\* an entry without TTL is still a hit at the largest age of the model
C7_WitnessPermanent ==
    /\ lastOp.op = "get" /\ lastOp.wasStored /\ lastOp.wasTtl = NoTtl
    /\ lastOp.wasAge = MaxTime /\ lastOp.ret # None

\* C8: LRU eviction. A set of a key that is not stored, on a level at
\* capacity, evicts exactly the least recently used key (used: set or
\* returned by a get): that key is a miss afterwards, every other key that
\* was a hit is still a hit, and the level stays at capacity.
C8_LruEviction ==
    (lastOp.op = "set" /\ lastOp.atCapacity /\ ~lastOp.wasStored) =>
        /\ lastOp.lruKey \notin StoredKeys
        /\ ~IsHit(lru, lastOp.lruKey, now)
        /\ StoredKeys = (lastOp.keysBefore \ {lastOp.lruKey}) \cup {lastOp.key}
        /\ \A k \in lastOp.hitsBefore \ {lastOp.lruKey} : IsHit(lru, k, now)
        /\ Len(lru.cache) = CacheMaxSize

\* the key evicted was not the first one inserted: a get had refreshed the older key
C8_Witness ==
    /\ lastOp.op = "set" /\ lastOp.atCapacity /\ ~lastOp.wasStored
    /\ lastOp.lruKey = "k2" /\ lastOp.key = "k3"
    /\ StoredKeys = {"k1", "k3"}
    /\ lru.timestamps["k1"] < lru.timestamps["k3"]
    /\ lastOp.hitsBefore = {"k1", "k2"}

(***************************************************************************)
(* SpecCacheConc: the same level called from several threads.  Every       *)
(* method body runs under "with self._lock"; each statement of the body    *)
(* is one step, so that any interleaving the lock allows is explored.      *)
(***************************************************************************)
\* capacity of the level in the threaded model
ConcMaxSize == 1
ConcKeys == {"k1", "k2"}
ConcValues == {"v1"}

\* a lock that excludes nobody
LockFreeAlways(t) == TRUE

\* threading.RLock: free, or already held by the caller
LockFree(t) == lock = None \/ lock = t

InitCacheConc ==
    /\ ConcIdle
    /\ MmrIdle
    /\ GraphIdle
    /\ PipeIdle
    /\ lru = EmptyLru
    /\ default_ttl \in DefaultTtls
    /\ now = 0
    /\ used = <<>>
    /\ lastOp = NoOp

Goto(t, label) == tpc' = [tpc EXCEPT ![t] = label]

\* a thread calls get, set or clear
Call(t) ==
    /\ tpc[t] = "idle"
    /\ \E op \in {"get", "set", "clear"}, key \in ConcKeys, value \in ConcValues, ttl \in Ttls :
         targ' = [targ EXCEPT ![t] =
                    IF op = "get" THEN [NoCall EXCEPT !.op = op, !.key = key]
                    ELSE IF op = "set" THEN [op |-> op, key |-> key, val |-> value, ttl |-> ttl]
                    ELSE [NoCall EXCEPT !.op = op]]
    /\ Goto(t, "acquire")
    /\ UNCHANGED <<cacheVars, lock, tloc, tret, snap, notConc>>

\* with self._lock:
Acquire(t) ==
    /\ tpc[t] = "acquire"
    /\ LockFree(t)
    /\ lock' = t
    /\ snap' = [snap EXCEPT ![t] = lru]
    /\ Goto(t, CASE targ[t].op = "get" -> "g_check"
                 [] targ[t].op = "set" -> "s_check"
                 [] OTHER -> "c_cache")
    /\ UNCHANGED <<cacheVars, targ, tloc, tret, notConc>>

\* get: if key not in self._cache: return None
GCheck(t) ==
    /\ tpc[t] = "g_check"
    /\ IF targ[t].key \notin OdKeys(lru.cache)
       THEN Goto(t, "release")
       ELSE Goto(t, "g_ttl")
    /\ UNCHANGED <<cacheVars, lock, targ, tloc, tret, snap, notConc>>

\* get: ttl = self._ttls.get(key); age = time.time() - ...; if age > ttl: self._remove(key); return None
GTtl(t) ==
    /\ tpc[t] = "g_ttl"
    /\ IF LruExpired(lru, targ[t].key, now)
       THEN /\ tloc' = [tloc EXCEPT ![t] = [rmkey |-> targ[t].key, cont |-> "release", tread |-> now]]
            /\ Goto(t, "rm_cache")
       ELSE /\ tloc' = [tloc EXCEPT ![t].tread = now]
            /\ Goto(t, "g_touch")
    /\ UNCHANGED <<cacheVars, lock, targ, tret, snap, notConc>>

\* get: self._cache.move_to_end(key)
GTouch(t) ==
    /\ tpc[t] = "g_touch"
    /\ lru' = IF targ[t].key \in OdKeys(lru.cache)
              THEN [lru EXCEPT !.cache = OdMoveToEnd(lru.cache, targ[t].key)]
              ELSE lru
    /\ Goto(t, "g_ret")
    /\ UNCHANGED <<default_ttl, now, lock, targ, tloc, tret, snap, notConc>>

\* get: return self._cache[key]
GRet(t) ==
    /\ tpc[t] = "g_ret"
    /\ tret' = [tret EXCEPT ![t] =
                  IF targ[t].key \in OdKeys(lru.cache)
                  THEN lru.cache[OdGet(lru.cache, targ[t].key)].v
                  ELSE "KeyError"]
    /\ Goto(t, "release")
    /\ UNCHANGED <<cacheVars, lock, targ, tloc, snap, notConc>>

\* _remove: self._cache.pop(key, None)
RmCache(t) ==
    /\ tpc[t] = "rm_cache"
    /\ lru' = [lru EXCEPT !.cache = OdPop(lru.cache, tloc[t].rmkey)]
    /\ Goto(t, "rm_ts")
    /\ UNCHANGED <<default_ttl, now, lock, targ, tloc, tret, snap, notConc>>

\* _remove: self._timestamps.pop(key, None)
RmTs(t) ==
    /\ tpc[t] = "rm_ts"
    /\ lru' = [lru EXCEPT !.timestamps = DictPop(lru.timestamps, tloc[t].rmkey)]
    /\ Goto(t, "rm_ttl")
    /\ UNCHANGED <<default_ttl, now, lock, targ, tloc, tret, snap, notConc>>

\* _remove: self._ttls.pop(key, None), then back to the caller
RmTtl(t) ==
    /\ tpc[t] = "rm_ttl"
    /\ lru' = [lru EXCEPT !.ttls = DictPop(lru.ttls, tloc[t].rmkey)]
    /\ Goto(t, tloc[t].cont)
    /\ UNCHANGED <<default_ttl, now, lock, targ, tloc, tret, snap, notConc>>

\* set: if key in self._cache: self._remove(key)
SCheck(t) ==
    /\ tpc[t] = "s_check"
    /\ IF targ[t].key \in OdKeys(lru.cache)
       THEN /\ tloc' = [tloc EXCEPT ![t].rmkey = targ[t].key, ![t].cont = "s_evict"]
            /\ Goto(t, "rm_cache")
       ELSE /\ Goto(t, "s_evict")
            /\ UNCHANGED tloc
    /\ UNCHANGED <<cacheVars, lock, targ, tret, snap, notConc>>

\* set: while len(self._cache) >= self.max_size: self._remove(next(iter(self._cache)))
SEvict(t) ==
    /\ tpc[t] = "s_evict"
    /\ IF Len(lru.cache) >= ConcMaxSize /\ Len(lru.cache) > 0
       THEN /\ tloc' = [tloc EXCEPT ![t].rmkey = lru.cache[1].k, ![t].cont = "s_evict"]
            /\ Goto(t, "rm_cache")
       ELSE /\ Goto(t, "s_put_cache")
            /\ UNCHANGED tloc
    /\ UNCHANGED <<cacheVars, lock, targ, tret, snap, notConc>>

\* set: self._cache[key] = value
SPutCache(t) ==
    /\ tpc[t] = "s_put_cache"
    /\ lru' = [lru EXCEPT !.cache =
                 IF targ[t].key \in OdKeys(lru.cache)
                 THEN [lru.cache EXCEPT ![OdGet(lru.cache, targ[t].key)].v = targ[t].val]
                 ELSE Append(lru.cache, [k |-> targ[t].key, v |-> targ[t].val])]
    /\ Goto(t, "s_put_ts")
    /\ UNCHANGED <<default_ttl, now, lock, targ, tloc, tret, snap, notConc>>

\* set: self._timestamps[key] = time.time()
SPutTs(t) ==
    /\ tpc[t] = "s_put_ts"
    /\ lru' = [lru EXCEPT !.timestamps = DictPut(lru.timestamps, targ[t].key, now)]
    /\ tloc' = [tloc EXCEPT ![t].tread = now]
    /\ Goto(t, "s_put_ttl")
    /\ UNCHANGED <<default_ttl, now, lock, targ, tret, snap, notConc>>

\* set: self._ttls[key] = ttl if ttl is not None else self.default_ttl
SPutTtl(t) ==
    /\ tpc[t] = "s_put_ttl"
    /\ lru' = [lru EXCEPT !.ttls = DictPut(lru.ttls, targ[t].key,
                 IF targ[t].ttl # NoTtl THEN targ[t].ttl ELSE default_ttl)]
    /\ Goto(t, "release")
    /\ UNCHANGED <<default_ttl, now, lock, targ, tloc, tret, snap, notConc>>

\* clear: self._cache.clear()
CCache(t) ==
    /\ tpc[t] = "c_cache"
    /\ lru' = [lru EXCEPT !.cache = <<>>]
    /\ Goto(t, "c_ts")
    /\ UNCHANGED <<default_ttl, now, lock, targ, tloc, tret, snap, notConc>>

\* clear: self._timestamps.clear()
CTs(t) ==
    /\ tpc[t] = "c_ts"
    /\ lru' = [lru EXCEPT !.timestamps = EmptyDict]
    /\ Goto(t, "c_ttl")
    /\ UNCHANGED <<default_ttl, now, lock, targ, tloc, tret, snap, notConc>>

\* clear: self._ttls.clear()
CTtl(t) ==
    /\ tpc[t] = "c_ttl"
    /\ lru' = [lru EXCEPT !.ttls = EmptyDict]
    /\ Goto(t, "release")
    /\ UNCHANGED <<default_ttl, now, lock, targ, tloc, tret, snap, notConc>>

\* leaving the with block: the call returns (its frame is dropped)
Release(t) ==
    /\ tpc[t] = "release"
    /\ lock' = IF lock = t THEN None ELSE lock
    /\ Goto(t, "idle")
    /\ targ' = [targ EXCEPT ![t] = NoCall]
    /\ tloc' = [tloc EXCEPT ![t] = NoLocals]
    /\ tret' = [tret EXCEPT ![t] = None]
    /\ snap' = [snap EXCEPT ![t] = EmptyLru]
    /\ UNCHANGED <<cacheVars, notConc>>

\* time passes, whatever the threads are doing
ConcTick ==
    /\ now < MaxTime
    /\ now' = now + 1
    /\ UNCHANGED <<lru, default_ttl, concVars, notConc>>

NextCacheConc ==
    \/ \E t \in Threads : Call(t)
    \/ \E t \in Threads : Acquire(t)
    \/ \E t \in Threads : GCheck(t)
    \/ \E t \in Threads : GTtl(t)
    \/ \E t \in Threads : GTouch(t)
    \/ \E t \in Threads : GRet(t)
    \/ \E t \in Threads : RmCache(t)
    \/ \E t \in Threads : RmTs(t)
    \/ \E t \in Threads : RmTtl(t)
    \/ \E t \in Threads : SCheck(t)
    \/ \E t \in Threads : SEvict(t)
    \/ \E t \in Threads : SPutCache(t)
    \/ \E t \in Threads : SPutTs(t)
    \/ \E t \in Threads : SPutTtl(t)
    \/ \E t \in Threads : CCache(t)
    \/ \E t \in Threads : CTs(t)
    \/ \E t \in Threads : CTtl(t)
    \/ \E t \in Threads : Release(t)
    \/ ConcTick

SpecCacheConc == InitCacheConc /\ [][NextCacheConc]_vars

\* a thread is inside a method body (between taking and leaving the lock)
InBody(t) == tpc[t] \notin {"idle", "acquire"}

\* what the call of thread t does when run alone on the level it found
AtomicOutcome(t) ==
    CASE targ[t].op = "get" -> LruGet(snap[t], targ[t].key, tloc[t].tread)
      [] targ[t].op = "set" ->
            [L |-> LruSet(snap[t], targ[t].key, targ[t].val, targ[t].ttl,
                          tloc[t].tread, ConcMaxSize, default_ttl),
             ret |-> None]
      [] OTHER -> [L |-> LruClear(snap[t]), ret |-> None]

\* C9: calls on one level take effect atomically. No two threads are inside
\* a method body of the level at once; a call that is about to return has
\* changed the level exactly as the same call run alone on the level it
\* found when it took the lock, and returns that call's value; and whenever
\* no thread is inside a body the three maps hold the same keys (no entry is
\* seen partially written or partially removed).
C9_Atomic ==
    /\ \A t \in Threads, u \in Threads : (t # u /\ InBody(t)) => ~InBody(u)
    /\ \A t \in Threads : tpc[t] = "release" =>
          /\ lru = AtomicOutcome(t).L
          /\ tret[t] = AtomicOutcome(t).ret
    /\ (\A t \in Threads : ~InBody(t)) =>
          /\ DOMAIN lru.timestamps = OdKeys(lru.cache)
          /\ DOMAIN lru.ttls = OdKeys(lru.cache)

\* a set that evicted the oldest key is about to return while the other
\* thread, which called get, is held at the lock
C9_Witness ==
    /\ tpc["t1"] = "release" /\ targ["t1"].op = "set"
    /\ Len(snap["t1"].cache) = ConcMaxSize
    /\ targ["t1"].key \notin OdKeys(snap["t1"].cache)
    /\ tpc["t2"] = "acquire" /\ targ["t2"].op = "get"
    /\ targ["t2"].key \in OdKeys(snap["t1"].cache)

\* a get that found its entry expired and removed it is about to return
\* while the other thread waits to set the same key
C9_WitnessExpiry ==
    /\ tpc["t1"] = "release" /\ targ["t1"].op = "get"
    /\ targ["t1"].key \in OdKeys(snap["t1"].cache)
    /\ targ["t1"].key \notin OdKeys(lru.cache)
    /\ tpc["t2"] = "acquire" /\ targ["t2"].op = "set"
    /\ targ["t2"].key = targ["t1"].key

(***************************************************************************)
(* Diversity reranking: _apply_mmr (nodes.py).  Scores, similarities and   *)
(* lambda are integers in tenths, so mmr is in hundredths; rounding to 4   *)
(* decimals does not arise.                                                *)
(***************************************************************************)
\* retrieval scores are 0..MaxScore tenths
MaxScore == 1
\* cosine similarities of two display names are 0..MaxSim tenths
MaxSim == 1
\* target_k is 1..MaxTopK
MaxTopK == 3

ItemIds == {"a", "b", "c"}
\* MMR_LAMBDA values, in tenths
Lambdas == {3, 5, 7}
\* the items whose display name may fail to encode (their vector is then missing)
MaybeUnnamed == {"c"}
IdPairs == {p \in SUBSET ItemIds : Cardinality(p) = 2}

Min2(a, b) == IF a < b THEN a ELSE b

\* max_sim of a candidate to the selected items (0 when a vector is missing)
MaxSimTo(cid, selected, env) ==
    LET sims == {IF cid \in env.named /\ selected[j].id \in env.named /\ selected[j].id # cid
                 THEN env.sim[{cid, selected[j].id}] ELSE 0 : j \in 1..Len(selected)}
    IN  IF cid \in env.named /\ \E j \in 1..Len(selected) : selected[j].id = cid
        THEN 10
        ELSE CHOOSE m \in sims \cup {0} : \A x \in sims \cup {0} : m >= x

\* mmr = mmr_lambda * rel - (1 - mmr_lambda) * max_sim
MmrOf(cand, selected, env) ==
    env.lam * cand.score - (10 - env.lam) * MaxSimTo(cand.id, selected, env)

\* the candidate the inner for-loop keeps: the first one with the largest mmr
BestIdx(selected, candidates, env) ==
    CHOOSE i \in 1..Len(candidates) :
        \A j \in 1..Len(candidates) :
            /\ MmrOf(candidates[i], selected, env) >= MmrOf(candidates[j], selected, env)
            /\ (MmrOf(candidates[j], selected, env) = MmrOf(candidates[i], selected, env)) => i <= j

SeqWithout(s, i) == SubSeq(s, 1, i - 1) \o SubSeq(s, i + 1, Len(s))

\* the while loop of _apply_mmr
RECURSIVE MmrLoop(_, _, _, _)
MmrLoop(selected, candidates, limit, env) ==
    IF Len(selected) < limit /\ candidates # <<>>
    THEN LET i == BestIdx(selected, candidates, env)
             c == candidates[i]
             ms == MaxSimTo(c.id, selected, env)
             chosen == [id |-> c.id, score |-> c.score,
                        diversity_score |-> 10 - ms,
                        novelty_score |-> c.score * (10 - ms),
                        final_score |-> MmrOf(c, selected, env)]
         IN  MmrLoop(Append(selected, chosen), SeqWithout(candidates, i), limit, env)
    ELSE selected

\* _apply_mmr stopping one item short of the target
ApplyMmrShort(results, env) ==
    IF results = <<>> THEN <<>>
    ELSE LET first == [id |-> results[1].id, score |-> results[1].score,
                       diversity_score |-> 10, novelty_score |-> results[1].score,
                       final_score |-> results[1].score]
         IN  MmrLoop(<<first>>, Tail(results), Min2(env.k, Len(results)) - 1, env)

\* _apply_mmr with the first item given no diversity
ApplyMmrFirstPlain(results, env) ==
    IF results = <<>> THEN <<>>
    ELSE LET first == [id |-> results[1].id, score |-> results[1].score,
                       diversity_score |-> 0, novelty_score |-> results[1].score,
                       final_score |-> results[1].score]
         IN  MmrLoop(<<first>>, Tail(results), Min2(env.k, Len(results)), env)

\* _apply_mmr starting from the last item of the list
ApplyMmrFromLast(results, env) ==
    IF results = <<>> THEN <<>>
    ELSE LET n == Len(results)
             first == [id |-> results[n].id, score |-> results[n].score,
                       diversity_score |-> 10, novelty_score |-> results[n].score,
                       final_score |-> results[n].score]
         IN  MmrLoop(<<first>>, SubSeq(results, 1, n - 1), Min2(env.k, n), env)

\* _apply_mmr(results, mmr_lambda, target_k, encoder)
ApplyMmr(results, env) ==
    IF results = <<>> THEN <<>>
    ELSE LET first == [id |-> results[1].id, score |-> results[1].score,
                       diversity_score |-> 10, novelty_score |-> results[1].score,
                       final_score |-> results[1].score]
         IN  MmrLoop(<<first>>, Tail(results), Min2(env.k, Len(results)), env)

\* the candidate pool is the first 10 results
PoolCap == 10

\* the whole result list taken as the pool
PoolAll(results) == results

\* valid[:10]
Pool(results) == SubSeq(results, 1, Min2(Len(results), PoolCap))

\* result lists around the pool size: PoolCap - 1 .. PoolCap + 2 items whose
\* display names have no vector, the first one scored MaxScore
LongLists ==
    {[i \in 1..n |-> [id |-> <<"p", i>>, score |-> IF i = 1 THEN MaxScore ELSE 0]] :
        n \in (PoolCap - 1)..(PoolCap + 2)}
\* target counts around the pool size
LongTopKs == (PoolCap - 1)..(PoolCap + 1)

\* candidate lists: distinct ids, any order, any scores
RawLists ==
    UNION {{s \in [1..n -> [id : ItemIds, score : 0..MaxScore]] :
              \A i \in 1..n, j \in 1..n : i # j => s[i].id # s[j].id} : n \in 0..Cardinality(ItemIds)}

InitMmr ==
    /\ ConcIdle
    /\ PipeIdle
    /\ GraphIdle
    /\ lru = EmptyLru /\ default_ttl = NoTtl /\ now = 0
    /\ used = <<>> /\ lastOp = NoOp
    /\ mmr_pc = "in"
    /\ \/ /\ mmr_in \in RawLists
          /\ mmr_env \in [lam : Lambdas, k : 1..MaxTopK, sim : [IdPairs -> 0..MaxSim],
                          named : {ItemIds \ u : u \in SUBSET MaybeUnnamed}]
       \/ /\ mmr_in \in LongLists
          /\ mmr_env \in [lam : Lambdas, k : {1, MaxTopK} \cup LongTopKs,
                          sim : {[p \in IdPairs |-> 0]}, named : {ItemIds}]
    /\ mmr_out = <<>>
    /\ mmr_out2 = <<>>

\* the reranking of one collection's results: _apply_mmr(valid[:10], ...)
MmrApply ==
    /\ mmr_pc = "in"
    /\ mmr_out' = ApplyMmr(Pool(mmr_in), mmr_env)
    /\ mmr_pc' = "out"
    /\ UNCHANGED <<mmr_in, mmr_env, mmr_out2, notMmr>>

\* the reranking applied to its own output, with target_k = len(list) and any lambda
MmrApplyAgain ==
    /\ mmr_pc = "out"
    /\ \E lam2 \in Lambdas :
         /\ mmr_env' = [mmr_env EXCEPT !.lam = lam2, !.k = Len(mmr_out)]
         /\ mmr_out2' = ApplyMmr(mmr_out, mmr_env')
    /\ mmr_pc' = "again"
    /\ UNCHANGED <<mmr_in, mmr_out, notMmr>>

NextMmr ==
    \/ MmrApply
    \/ MmrApplyAgain

SpecMmr == InitMmr /\ [][NextMmr]_vars

ItemsOf(list) == {[id |-> list[i].id, score |-> list[i].score] : i \in 1..Len(list)}

\* the order query_points gives a result list: best score first (the
\* collections use the cosine distance)
StoreOrdered(results) ==
    \A i \in 1..Len(results), j \in 1..Len(results) :
        i < j => results[i].score >= results[j].score

\* C23: for every non-empty candidate list as the store returns it, the
\* first selected item is the candidate with the highest raw score of the
\* list, kept with that score, and its diversity_score is 1.0 (10 tenths).
C23_FirstIsTop ==
    (mmr_pc # "in" /\ mmr_in # <<>> /\ StoreOrdered(mmr_in)) =>
        /\ mmr_out # <<>>
        /\ \E i \in 1..Len(mmr_in) :
              /\ mmr_out[1].id = mmr_in[i].id
              /\ mmr_out[1].score = mmr_in[i].score
        /\ \A i \in 1..Len(mmr_in) : mmr_out[1].score >= mmr_in[i].score
        /\ mmr_out[1].diversity_score = 10

\* three candidates of two different scores were reranked
C23_Witness ==
    /\ mmr_pc = "out"
    /\ Len(mmr_in) = 3
    /\ StoreOrdered(mmr_in)
    /\ mmr_in[1].score > mmr_in[3].score
    /\ Len(mmr_out) >= 2
    /\ mmr_out[1].id = mmr_in[1].id
    /\ mmr_out[1].diversity_score = 10

\* C24: diversity reranking returns exactly min(top_k, n) items, n being
\* the size of the candidate pool (the first 10 results), hence at most
\* top_k; the items are distinct items of the pool.
C24_MmrCount ==
    mmr_pc = "out" =>
        LET n == Min2(Len(mmr_in), PoolCap)
        IN  /\ Len(mmr_out) = Min2(mmr_env.k, n)
            /\ Len(mmr_out) <= mmr_env.k
            /\ ItemsOf(mmr_out) \subseteq {[id |-> mmr_in[i].id, score |-> mmr_in[i].score] :
                                             i \in 1..n}
            /\ Cardinality(ItemsOf(mmr_out)) = Len(mmr_out)

\* 12 results and a target of 11: the pool of 10 is exhausted
C24_Witness ==
    /\ mmr_pc = "out"
    /\ Len(mmr_in) = PoolCap + 2
    /\ mmr_env.k = PoolCap + 1
    /\ Len(mmr_out) = PoolCap

\* 3 candidates and a target of 2: selection stops at the target
C24_WitnessTarget ==
    /\ mmr_pc = "out"
    /\ Len(mmr_in) = 3
    /\ mmr_env.k = 2
    /\ Len(mmr_out) = 2

\* C11: MMR boundary.  An empty candidate list is reranked to an empty
\* list; a list of one item is reranked to that item alone, with its score
\* kept and diversity_score = 1.0 (10 tenths).
C11_MmrBoundary ==
    mmr_pc = "out" =>
        /\ Len(mmr_in) = 0 => mmr_out = <<>>
        /\ Len(mmr_in) = 1 =>
              /\ Len(mmr_out) = 1
              /\ mmr_out[1].id = mmr_in[1].id
              /\ mmr_out[1].score = mmr_in[1].score
              /\ mmr_out[1].diversity_score = 10

\* a one-item list was reranked
C11_Witness ==
    /\ mmr_pc = "out"
    /\ Len(mmr_in) = 1
    /\ Len(mmr_out) = 1
    /\ mmr_out[1].diversity_score = 10

\* an empty list was reranked
C11_WitnessEmpty ==
    /\ mmr_pc = "out"
    /\ Len(mmr_in) = 0
    /\ mmr_out = <<>>

\* C10: MMR idempotence. _apply_mmr applied to a list that _apply_mmr
\* returned, with target_k = len(list) (whatever the lambda), returns the same
\* items: none is dropped, none is added, none appears twice.
C10_MmrIdempotent ==
    mmr_pc = "again" =>
        /\ ItemsOf(mmr_out2) = ItemsOf(mmr_out)
        /\ Len(mmr_out2) = Len(mmr_out)

\* the second application reordered a three-item output (another lambda):
\* the set is the same, the order is not
C10_Witness ==
    /\ mmr_pc = "again"
    /\ Len(mmr_out) = 3
    /\ ItemsOf(mmr_out2) = ItemsOf(mmr_out)
    /\ mmr_out2[2].id # mmr_out[2].id

(***************************************************************************)
(* The neighbor graph: _build_graph (nodes.py).  Scores, strengths and     *)
(* thresholds are written in hundredths (0.25 is 25, 1.0 is 100).          *)
(***************************************************************************)
\* strength one shared gene / disease / pathway adds
GeneStrength == 25
DiseaseStrength == 30
PathwayStrength == 35
\* 1.0, the cap of a strength
FullStrength == 100
\* max_nodes_per_collection
MaxNodesPerCollection == 5
\* the defaults of score_threshold and edge_threshold
DefaultScoreThreshold == 50
DefaultEdgeThreshold == 20

\* one entry of `relations`, or none when nothing is shared
RelationOf(type, shared, unit) ==
    IF shared = {} THEN <<>>
    ELSE <<[type |-> type, strength |-> Min2(FullStrength, Cardinality(shared) * unit)]>>

\* `relations` of two payloads, in the order the code appends them
Relations(pi, pj) ==
    RelationOf("shared_genes", pi.genes \cap pj.genes, GeneStrength)
    \o RelationOf("shared_diseases", pi.diseases \cap pj.diseases, DiseaseStrength)
    \o RelationOf("shared_pathways", pi.pathways \cap pj.pathways, PathwayStrength)

RECURSIVE TotalStrength(_)
TotalStrength(relations) ==
    IF relations = <<>> THEN 0
    ELSE Head(relations).strength + TotalStrength(Tail(relations))

\* max(relations, key=strength)["type"]: the first of the strongest
PrimaryRelation(relations) ==
    LET i == CHOOSE k \in 1..Len(relations) :
                 /\ \A j \in 1..Len(relations) : relations[j].strength <= relations[k].strength
                 /\ \A j \in 1..(k - 1) : relations[j].strength < relations[k].strength
    IN  relations[i].type

\* the threshold check without the threshold
EdgeKeptAnyStrength(final_strength, edge_threshold, relations) ==
    relations # <<>>

\* an edge is appended: the strength is not below the threshold and there
\* is a relation
EdgeKept(final_strength, edge_threshold, relations) ==
    /\ ~(final_strength < edge_threshold)
    /\ relations # <<>>

\* the body of the pair loop: the edge of node_list[i], node_list[j], if any
EdgeBetween(a, b, node_payloads, edge_threshold) ==
    LET relations == Relations(node_payloads[a], node_payloads[b])
        final_strength == Min2(FullStrength, TotalStrength(relations))
    IN  IF EdgeKept(final_strength, edge_threshold, relations)
        THEN <<[source |-> a, target |-> b, relation |-> PrimaryRelation(relations),
                strength |-> final_strength]>>
        ELSE <<>>

\* for i in range(n): for j in range(i + 1, n)
RECURSIVE BuildEdges(_, _, _, _, _)
BuildEdges(node_list, i, j, node_payloads, edge_threshold) ==
    IF i > Len(node_list) THEN <<>>
    ELSE IF j > Len(node_list)
         THEN BuildEdges(node_list, i + 1, i + 2, node_payloads, edge_threshold)
         ELSE EdgeBetween(node_list[i], node_list[j], node_payloads, edge_threshold)
              \o BuildEdges(node_list, i, j + 1, node_payloads, edge_threshold)

\* the loop over the items of one collection
\* an item skipped for its score only
NodeSkippedScoreOnly(r, node_ids, score_threshold) ==
    r.score < score_threshold

\* the two `continue` tests of the node loop: score under the threshold, id
\* already a node
NodeSkipped(r, node_ids, score_threshold) ==
    r.score < score_threshold \/ r.id \in node_ids

RECURSIVE AddNodes(_, _, _, _, _, _)
AddNodes(items, collection, count, acc, score_threshold, max_nodes) ==
    IF items = <<>> \/ count >= max_nodes THEN acc
    ELSE LET r == Head(items)
         IN  IF NodeSkipped(r, DOMAIN acc.node_payloads, score_threshold)
             THEN AddNodes(Tail(items), collection, count, acc, score_threshold, max_nodes)
             ELSE AddNodes(Tail(items), collection, count + 1,
                           [nodes |-> Append(acc.nodes, [id |-> r.id, collection |-> collection,
                                                         score |-> r.score]),
                            node_payloads |-> DictPut(acc.node_payloads, r.id, r.payload)],
                           score_threshold, max_nodes)

\* the loop over results.items()
RECURSIVE BuildNodes(_, _, _, _)
BuildNodes(results, acc, score_threshold, max_nodes) ==
    IF results = <<>> THEN acc
    ELSE BuildNodes(Tail(results),
                    AddNodes(Head(results).items, Head(results).collection, 0, acc,
                             score_threshold, max_nodes),
                    score_threshold, max_nodes)

\* list(node_ids): the ids of a set, in an order the program does not fix
NodeLists(node_ids) ==
    {l \in [1..Cardinality(node_ids) -> node_ids] :
        \A i \in DOMAIN l, j \in DOMAIN l : i # j => l[i] # l[j]}

\* _build_graph(results, score_threshold, edge_threshold), with node_list the
\* order list(node_ids) came out in
BuildGraph(results, score_threshold, edge_threshold, max_nodes, node_list) ==
    LET b == BuildNodes(results, [nodes |-> <<>>, node_payloads |-> EmptyDict],
                        score_threshold, max_nodes)
    IN  [nodes |-> b.nodes,
         edges |-> BuildEdges(node_list, 1, 2, b.node_payloads, edge_threshold),
         node_payloads |-> b.node_payloads]

GeneNames == <<"G1", "G2", "G3", "G4", "G5">>
DiseaseNames == <<"D1", "D2", "D3", "D4">>
PathwayNames == <<"P1", "P2", "P3">>
FirstOf(names, n) == {names[i] : i \in 1..n}
\* payload.normalized_bridge of an item (absent fields are empty)
BridgeGenes == {FirstOf(GeneNames, n) : n \in {0, 2, 4, 5}} \cup {{"G9"}}
BridgeDiseases == {FirstOf(DiseaseNames, n) : n \in {0, 1, 4}}
BridgePathways == {FirstOf(PathwayNames, n) : n \in {0, 1, 3}}
Payloads == [genes : BridgeGenes, diseases : BridgeDiseases, pathways : BridgePathways]
ItemScores == {40, 60}
EdgeThresholds == {0, DefaultEdgeThreshold, 40, 60}
\* reranked results: two proteins, and an article or none
GraphResults ==
    {<<[collection |-> "proteins",
        items |-> <<[id |-> "n1", score |-> 60, payload |-> pa],
                    [id |-> "n2", score |-> sb, payload |-> pb]>>],
       [collection |-> "articles", items |-> art]>> :
        pa \in Payloads, pb \in Payloads, sb \in ItemScores,
        art \in {<<>>, <<[id |-> "n3", score |-> 60,
                          payload |-> [genes |-> FirstOf(GeneNames, 2), diseases |-> {},
                                       pathways |-> {}]]>>}}

\* reranked results for the node loop: 4, 6 or 7 proteins m1..mn (payloads
\* without entities), the second possibly scored under the threshold, the
\* third possibly carrying the id of the first; and no article, an article
\* with the id of the first protein, or an article with an id of its own
NoEntities == [genes |-> {}, diseases |-> {}, pathways |-> {}]
ProteinIds == <<"m1", "m2", "m3", "m4", "m5", "m6", "m7">>
ScoreThresholds == {DefaultScoreThreshold, 60}
NodeResults ==
    {<<[collection |-> "proteins",
        items |-> [i \in 1..n |->
                     [id |-> IF dup /\ i = 3 THEN ProteinIds[1] ELSE ProteinIds[i],
                      score |-> IF low /\ i = 2 THEN 40 ELSE 60,
                      payload |-> NoEntities]]],
       [collection |-> "articles", items |-> art]>> :
        n \in {4, 6, 7}, dup \in BOOLEAN, low \in BOOLEAN,
        art \in {<<>>,
                 <<[id |-> ProteinIds[1], score |-> 60, payload |-> NoEntities]>>,
                 <<[id |-> "a1", score |-> 60, payload |-> NoEntities]>>}}

InitGraph ==
    /\ ConcIdle
    /\ MmrIdle
    /\ PipeIdle
    /\ lru = EmptyLru /\ default_ttl = NoTtl /\ now = 0
    /\ used = <<>> /\ lastOp = NoOp
    /\ step_pc = "off" /\ step_plan = <<>> /\ step_i = 0 /\ inflight = {}
    /\ stage_runs = [n \in Stages |-> 0]
    /\ graph_pc = "in"
    /\ graph_in \in [results : GraphResults, score_threshold : {DefaultScoreThreshold},
                     edge_threshold : EdgeThresholds]
                    \cup [results : NodeResults, score_threshold : ScoreThresholds,
                          edge_threshold : {DefaultEdgeThreshold}]
    /\ graph_out = [nodes |-> <<>>, edges |-> <<>>, node_payloads |-> <<>>]

\* neighbor_graph = _build_graph(reranked_results, score_threshold, edge_threshold)
GraphBuild ==
    /\ graph_pc = "in"
    /\ LET ids == DOMAIN BuildNodes(graph_in.results,
                                    [nodes |-> <<>>, node_payloads |-> EmptyDict],
                                    graph_in.score_threshold,
                                    MaxNodesPerCollection).node_payloads
       IN  \E node_list \in NodeLists(ids) :
             graph_out' = BuildGraph(graph_in.results, graph_in.score_threshold,
                                     graph_in.edge_threshold, MaxNodesPerCollection,
                                     node_list)
    /\ graph_pc' = "out"
    /\ UNCHANGED <<graph_in, notGraph>>

NextGraph == GraphBuild

SpecGraph == InitGraph /\ [][NextGraph]_vars

\* the ids of the graph's nodes
NodeIds == {graph_out.nodes[i].id : i \in 1..Len(graph_out.nodes)}
\* the edges between two nodes, in either direction
EdgesOf(a, b) ==
    {i \in 1..Len(graph_out.edges) :
        {graph_out.edges[i].source, graph_out.edges[i].target} = {a, b}}
\* what two nodes share, read from the items they were built from
SharedCount(a, b, field) ==
    Cardinality(graph_out.node_payloads[a][field] \cap graph_out.node_payloads[b][field])
CappedAt100(n) == IF n > 100 THEN 100 ELSE n
ExpectedStrength(a, b) ==
    CappedAt100(CappedAt100(SharedCount(a, b, "genes") * 25)
                + CappedAt100(SharedCount(a, b, "diseases") * 30)
                + CappedAt100(SharedCount(a, b, "pathways") * 35))

\* C12: graph edges.  For every pair of nodes of the graph there is an edge
\* (exactly one) if and only if the two share a gene, a disease or a pathway
\* and the strength min(1, min(1, 0.25 genes) + min(1, 0.3 diseases) +
\* min(1, 0.35 pathways)) is at least edge_threshold; the edge carries that
\* strength.  Two nodes sharing exactly 2 genes and nothing else: strength
\* 0.5, relation shared_genes, present at threshold 0.4, absent at 0.6.
C12_GraphEdges ==
    graph_pc = "out" =>
        /\ \A a \in NodeIds, b \in NodeIds :
              a # b =>
                 /\ EdgesOf(a, b) # {} <=>
                       /\ ExpectedStrength(a, b) > 0
                       /\ ExpectedStrength(a, b) >= graph_in.edge_threshold
                 /\ Cardinality(EdgesOf(a, b)) <= 1
                 /\ \A i \in EdgesOf(a, b) :
                       graph_out.edges[i].strength = ExpectedStrength(a, b)
                 /\ ( /\ SharedCount(a, b, "genes") = 2
                      /\ SharedCount(a, b, "diseases") = 0
                      /\ SharedCount(a, b, "pathways") = 0 ) =>
                         /\ graph_in.edge_threshold = 40 => EdgesOf(a, b) # {}
                         /\ graph_in.edge_threshold = 60 => EdgesOf(a, b) = {}
                         /\ \A i \in EdgesOf(a, b) :
                               /\ graph_out.edges[i].strength = 50
                               /\ graph_out.edges[i].relation = "shared_genes"
        /\ \A i \in 1..Len(graph_out.edges) :
              /\ graph_out.edges[i].source \in NodeIds
              /\ graph_out.edges[i].target \in NodeIds
              /\ graph_out.edges[i].source # graph_out.edges[i].target

\* two nodes share exactly two genes and the threshold 0.4 keeps their edge
C12_Witness ==
    /\ graph_pc = "out"
    /\ graph_in.edge_threshold = 40
    /\ {"n1", "n2"} \subseteq NodeIds
    /\ SharedCount("n1", "n2", "genes") = 2
    /\ SharedCount("n1", "n2", "diseases") = 0
    /\ SharedCount("n1", "n2", "pathways") = 0
    /\ \E i \in EdgesOf("n1", "n2") :
          graph_out.edges[i].strength = 50 /\ graph_out.edges[i].relation = "shared_genes"

\* the same pair at threshold 0.6: no edge
C12_WitnessAbsent ==
    /\ graph_pc = "out"
    /\ graph_in.edge_threshold = 60
    /\ {"n1", "n2"} \subseteq NodeIds
    /\ SharedCount("n1", "n2", "genes") = 2
    /\ SharedCount("n1", "n2", "diseases") = 0
    /\ SharedCount("n1", "n2", "pathways") = 0
    /\ EdgesOf("n1", "n2") = {}

(***************************************************************************)
(* The recommendation pipeline: run_recommendation (workflow.py) runs      *)
(* node_encode, node_search and node_rank_enrich (nodes.py) in that order. *)
(* A vector is written <<encoder, input>>: the encoders are functions of   *)
(* their input.  A result list is written as its length.                   *)
(***************************************************************************)
\* each collection holds 0..MaxPoints points
MaxPoints == 2

BlankText == "  "
Texts == {None, BlankText, "kinase inhibitor", "find novel kinase"}
\* 8 residues (not above 10) and 18 residues
InputSequences == {None, "MKTAYIAK", "MKTAYIAKQRQISFVKSH"}
ImagePaths == {None, "gel.png"}
StructurePaths == {None, "1abc.pdb"}
TopKs == {1, 2}
Requests ==
    [text : Texts, sequence : InputSequences, image_path : ImagePaths,
     structure_path : StructurePaths, top_k : TopKs, filter_by_genes : BOOLEAN,
     include_summary : BOOLEAN, include_design_candidates : BOOLEAN]

Encoders == {"text", "sequence", "image", "structure"}
\* the store: every collection holds `points` points, `tagged` of them carry
\* the genes a filter asks for; the queries of the collections in `failing`
\* (at most one, of a store that is full) raise inside the client; at most
\* one encoder raises during the run, and none when a collection fails
Worlds ==
    {w \in [store : {r \in [points : 0..MaxPoints, tagged : 0..MaxPoints,
                            failing : {{}} \cup {{c} : c \in CollectionSet}] :
                       /\ r.tagged \in {0, r.points}
                       /\ r.failing # {} => r.points = MaxPoints},
            down : {{}} \cup {{e} : e \in Encoders}] :
        w.store.failing # {} => w.down = {}}

\* str.strip() on the texts above
Strip(t) == IF t = BlankText THEN "" ELSE t

\* the modalities node_encode detects in a request
PresentModalities(r) ==
    {n \in Encoders :
        \/ n = "text" /\ r.text # None /\ Strip(r.text) # ""
        \/ n = "sequence" /\ r.sequence # None /\ Len(r.sequence) > 10
        \/ n = "image" /\ r.image_path # None
        \/ n = "structure" /\ r.structure_path # None}

\* the classification with text-only requests sent down the Case 3 branch
ClassifyTextAsCase3(has_text, modalities) ==
    IF has_text THEN [input_type |-> <<"text">> \o modalities, search_case |-> 3]
    ELSE IF Len(modalities) > 0 THEN [input_type |-> modalities, search_case |-> 2]
    ELSE [input_type |-> <<"unknown">>, search_case |-> 1]

\* input type and search case; "_".join(sorted(modalities)) is written as the list
Classify(has_text, modalities) ==
    IF has_text /\ Len(modalities) = 0
    THEN [input_type |-> <<"text_only">>, search_case |-> 1]
    ELSE IF Len(modalities) > 0 /\ ~has_text
    THEN [input_type |-> modalities, search_case |-> 2]
    ELSE IF has_text /\ Len(modalities) > 0
    THEN [input_type |-> <<"text">> \o modalities, search_case |-> 3]
    ELSE [input_type |-> <<"unknown">>, search_case |-> 1]

\* two sequences of 104 residues with the same first 100
LongSequenceA == "MMMMMMMMMMMMMMMMMMMMMMMMMMMMMMMMMMMMMMMMMMMMMMMMMMMMMMMMMMMMMMMMMMMMMMMMMMMMMMMMMMMMMMMMMMMMMMMMMMMMKTAY"
LongSequenceB == "MMMMMMMMMMMMMMMMMMMMMMMMMMMMMMMMMMMMMMMMMMMMMMMMMMMMMMMMMMMMMMMMMMMMMMMMMMMMMMMMMMMMMMMMMMMMMMMMMMMMQRQI"

\* seq[:100] on the sequences of the model
First100(seq) ==
    IF seq \in {LongSequenceA, LongSequenceB}
    THEN "MMMMMMMMMMMMMMMMMMMMMMMMMMMMMMMMMMMMMMMMMMMMMMMMMMMMMMMMMMMMMMMMMMMMMMMMMMMMMMMMMMMMMMMMMMMMMMMMMMMM"
    ELSE seq

\* a cache that never has the key
EmbeddingCachedNever(cache, key) == FALSE

\* cached = cache.get_embedding(cache_key); if cached:
EmbeddingCached(cache, key) == key \in DOMAIN cache

\* node_encode, up to the point where it returns or an encoder raises
Encode(r, down, cache) ==
    LET has_text == r.text # None /\ Strip(r.text) # ""
        has_sequence == r.sequence # None /\ Len(r.sequence) > 10
        has_image == r.image_path # None
        has_structure == r.structure_path # None
        tkey == <<"text", r.text>>
        skey == <<"seq", IF r.sequence = None THEN None ELSE First100(r.sequence)>>
        ikey == <<"img", r.image_path>>
        pkey == <<"struct", r.structure_path>>
        Hit(key) == EmbeddingCached(cache, key)
        text_raised == has_text /\ ~Hit(tkey) /\ "text" \in down
        seq_raised == ~text_raised /\ has_sequence /\ ~Hit(skey) /\ "sequence" \in down
        raised == text_raised \/ seq_raised
        image_ok == has_image /\ (Hit(ikey) \/ "image" \notin down)
        structure_ok == has_structure /\ (Hit(pkey) \/ "structure" \notin down)
        present == {n \in Encoders :
                      \/ n = "text" /\ has_text
                      \/ n = "sequence" /\ has_sequence
                      \/ n = "image" /\ image_ok
                      \/ n = "structure" /\ structure_ok}
        keyOf == [n \in Encoders |->
                    CASE n = "text" -> tkey [] n = "sequence" -> skey
                      [] n = "image" -> ikey [] OTHER -> pkey]
        inputOf == [n \in Encoders |->
                      CASE n = "text" -> r.text [] n = "sequence" -> r.sequence
                        [] n = "image" -> r.image_path [] OTHER -> r.structure_path]
        vectors == [n \in present |->
                      IF Hit(keyOf[n]) THEN cache[keyOf[n]] ELSE <<n, inputOf[n]>>]
        stored == IF text_raised THEN {}
                  ELSE IF seq_raised THEN present \cap {"text"}
                  ELSE present
        cache2 == [k \in DOMAIN cache \cup {keyOf[n] : n \in stored} |->
                     IF k \in DOMAIN cache THEN cache[k]
                     ELSE vectors[CHOOSE n \in stored : keyOf[n] = k]]
        modalities == (IF has_image THEN <<"image">> ELSE <<>>)
                      \o (IF has_sequence THEN <<"sequence">> ELSE <<>>)
                      \o (IF has_structure THEN <<"structure">> ELSE <<>>)
        classified == Classify(has_text, modalities)
        \* the encoders called, in the order of the calls
        invoked == (IF has_text /\ ~Hit(tkey) THEN <<"text">> ELSE <<>>)
                   \o (IF ~text_raised /\ has_sequence /\ ~Hit(skey)
                       THEN <<"sequence">> ELSE <<>>)
                   \o (IF ~raised /\ has_image /\ ~Hit(ikey) THEN <<"image">> ELSE <<>>)
                   \o (IF ~raised /\ has_structure /\ ~Hit(pkey)
                       THEN <<"structure">> ELSE <<>>)
    IN  [raised |-> raised, cache |-> cache2, has_text |-> has_text, invoked |-> invoked,
         modalities |-> modalities, vectors |-> vectors,
         sparse_vectors |-> IF has_text THEN [k \in {"text_sparse"} |-> "dict"]
                            ELSE EmptyDict,
         input_type |-> classified.input_type, search_case |-> classified.search_case]

\* the response of the except branch built like that of a run that went through
ErrorResponseUntagged ==
    [input_type |-> <<"unknown">>, processing_time |-> "elapsed", search_strategy |-> None,
     divergence_level |-> None, quadrant |-> [c \in CollectionSet |-> 0],
     summary |-> "Error"]

\* the SearchResponse run_recommendation returns when the workflow raised
ErrorResponse ==
    [input_type |-> <<"error">>, processing_time |-> "elapsed", search_strategy |-> None,
     divergence_level |-> None, quadrant |-> [c \in CollectionSet |-> 0],
     summary |-> "Error"]

InitPipe ==
    /\ ConcIdle
    /\ MmrIdle
    /\ GraphIdle
    /\ lru = EmptyLru /\ default_ttl = NoTtl /\ now = 0
    /\ used = <<>> /\ lastOp = NoOp
    /\ pc = "encode"
    /\ req \in Requests
    /\ world \in Worlds
    \* an encoder the run cannot reach is not counted as raising
    /\ \/ world.down \subseteq {"text"}
       \/ world.down = {"sequence"} /\ req.sequence # None
       \/ world.down = {"image"} /\ req.image_path # None
       \/ world.down = {"structure"} /\ req.structure_path # None
    /\ st = InitialState
    /\ calls = <<>>
    /\ emb_cache = EmptyDict
    /\ response = <<>>

\* the state node_encode returns
AfterEncode(s, e) ==
    [s EXCEPT !.input_type = e.input_type,
              !.search_case = e.search_case,
              !.has_text = e.has_text,
              !.modalities = e.modalities,
              !.vectors = e.vectors,
              !.sparse_vectors = e.sparse_vectors]

\* node 1; an exception of the text or sequence encoder leaves the workflow
\* and run_recommendation answers with the error response
NodeEncode ==
    /\ pc = "encode"
    /\ LET e == Encode(req, world.down, emb_cache)
       IN  /\ emb_cache' = e.cache
           /\ IF e.raised
              THEN /\ pc' = "done"
                   /\ response' = <<ErrorResponse>>
                   /\ st' = st
              ELSE /\ pc' = "search"
                   /\ response' = response
                   /\ st' = AfterEncode(st, e)
    /\ UNCHANGED <<req, world, calls, notPipe>>

(***************************************************************************)
(* node_search.  Every call is logged with the call site it came from      *)
(* (phase) and what it was given.                                          *)
(***************************************************************************)
QdrantCall(phase, op, collection, vector, vector_name, limit, filtered, returned) ==
    [svc |-> "qdrant", op |-> op, phase |-> phase, collection |-> collection,
     vector |-> vector, vector_name |-> vector_name, limit |-> limit,
     filtered |-> filtered, returned |-> returned, text |-> None, reply |-> None]

LlmCall(phase, op, user_text) ==
    [svc |-> "llm", op |-> op, phase |-> phase, collection |-> None,
     vector |-> <<>>, vector_name |-> None, limit |-> 0,
     filtered |-> FALSE, returned |-> 0, text |-> user_text, reply |-> None]

\* what a query of the store gives: the nearest points, at most top_k of
\* them, among those the filter lets through
QueryPoints(top_k, filtered, store) ==
    Min2(top_k, IF filtered THEN store.tagged ELSE store.points)

\* qdrant.vector_search: the points of the query, or [] when the query raised
VectorSearch(phase, collection, vector, vector_name, top_k, filtered, store) ==
    QdrantCall(phase, "vector_search", collection, vector, vector_name, top_k, filtered,
               IF collection \in store.failing THEN 0
               ELSE QueryPoints(top_k, filtered, store))

\* qdrant.hybrid_search: the same, [] when the query raised
HybridSearch(phase, collection, vector, vector_name, top_k, filtered, store) ==
    QdrantCall(phase, "hybrid_search", collection, vector, vector_name, top_k, filtered,
               IF collection \in store.failing THEN 0
               ELSE QueryPoints(top_k, filtered, store))

InList(x, list) == \E i \in 1..Len(list) : list[i] = x

\* {collection: results} as the calls of a phase leave it: the last call for
\* a collection gives its results
ResultsOf(cs) ==
    [c \in {cs[i].collection : i \in 1..Len(cs)} |->
        cs[CHOOSE i \in 1..Len(cs) :
              /\ cs[i].collection = c
              /\ \A j \in 1..Len(cs) : cs[j].collection = c => j <= i].returned]

\* Case 1 with the text slot used for every collection
Case1SearchTextSlot(s, top_k, store) ==
    [i \in 1..Len(COLLECTIONS) |->
        VectorSearch("cas1", COLLECTIONS[i], s.vectors["text"], "text",
                     top_k * 2, FALSE, store)]

\* Case 1 with the loop left at the first collection whose query fails
Case1SearchStopAtFailure(s, top_k, store) ==
    LET n == IF \E i \in 1..Len(COLLECTIONS) : COLLECTIONS[i] \in store.failing
             THEN CHOOSE i \in 1..Len(COLLECTIONS) : COLLECTIONS[i] \in store.failing
             ELSE Len(COLLECTIONS)
    IN  [i \in 1..n |->
            VectorSearch("cas1", COLLECTIONS[i], s.vectors["text"],
                         IF COLLECTIONS[i] = "images" THEN "caption" ELSE "text",
                         top_k * 2, FALSE, store)]

\* Case 1: every collection, text vector, in the order of COLLECTIONS
Case1Search(s, top_k, store) ==
    [i \in 1..Len(COLLECTIONS) |->
        VectorSearch("cas1", COLLECTIONS[i], s.vectors["text"],
                     IF COLLECTIONS[i] = "images" THEN "caption" ELSE "text",
                     top_k * 2, FALSE, store)]

\* Case 2 with Phase 1 left out
Phase1Case2Skipped(s, top_k, store) == <<>>

\* Case 2, Phase 1: image, sequence, structure
Phase1Case2(s, top_k, store) ==
    (IF InList("image", s.modalities) /\ "image" \in DOMAIN s.vectors
     THEN <<VectorSearch("phase1", "images", s.vectors["image"], "image",
                         top_k * 2, FALSE, store)>>
     ELSE <<>>)
    \o (IF InList("sequence", s.modalities) /\ "sequence" \in DOMAIN s.vectors
        THEN <<VectorSearch("phase1", "proteins", s.vectors["sequence"], "sequence",
                            top_k * 2, FALSE, store)>>
        ELSE <<>>)
    \o (IF InList("structure", s.modalities) /\ "structure" \in DOMAIN s.vectors
        THEN <<VectorSearch("phase1", "structures", s.vectors["structure"], "structure",
                            top_k * 2, FALSE, store)>>
        ELSE <<>>)

\* Case 3, Phase 1 with the modal vector blended with the text vector
Phase1Case3Fused(s, top_k, store) ==
    (IF InList("sequence", s.modalities) /\ "sequence" \in DOMAIN s.vectors
     THEN <<VectorSearch("phase1", "proteins", <<"fused", s.vectors["sequence"][2]>>,
                         "sequence", top_k * 2, FALSE, store)>>
     ELSE <<>>)
    \o (IF InList("image", s.modalities) /\ "image" \in DOMAIN s.vectors
        THEN <<VectorSearch("phase1", "images", <<"fused", s.vectors["image"][2]>>,
                            "image", top_k * 2, FALSE, store)>>
        ELSE <<>>)
    \o (IF InList("structure", s.modalities) /\ "structure" \in DOMAIN s.vectors
        THEN <<VectorSearch("phase1", "structures",
                            <<"fused", s.vectors["structure"][2]>>,
                            "structure", top_k * 2, FALSE, store)>>
        ELSE <<>>)

\* Case 3, Phase 1: sequence, image, structure
Phase1Case3(s, top_k, store) ==
    (IF InList("sequence", s.modalities) /\ "sequence" \in DOMAIN s.vectors
     THEN <<VectorSearch("phase1", "proteins", s.vectors["sequence"], "sequence",
                         top_k * 2, FALSE, store)>>
     ELSE <<>>)
    \o (IF InList("image", s.modalities) /\ "image" \in DOMAIN s.vectors
        THEN <<VectorSearch("phase1", "images", s.vectors["image"], "image",
                            top_k * 2, FALSE, store)>>
        ELSE <<>>)
    \o (IF InList("structure", s.modalities) /\ "structure" \in DOMAIN s.vectors
        THEN <<VectorSearch("phase1", "structures", s.vectors["structure"], "structure",
                            top_k * 2, FALSE, store)>>
        ELSE <<>>)

(***************************************************************************)
(* llm.bridge_cross_modal.  What the LLM writes is not the program's       *)
(* choice: a reply is any of BridgeReplies.                                *)
(***************************************************************************)
GeneratedQuery == "kinase signaling pathway"
GeneSets == {{}, {"BRCA1"}}
Alignments == {"aligned", "partial", "divergent"}

\* the queries of the fallback reply when there is no user text
DefaultQuery(c) ==
    CASE c = "articles" -> "protein function"
      [] c = "experiments" -> "gene expression"
      [] c = "proteins" -> "protein structure"
      [] c = "images" -> "pathway diagram"
      [] OTHER -> "protein 3D structure"

\* what generate() hands bridge_cross_modal: the text of a JSON object, a
\* text that is not JSON, or JSON that is not an object (a list, a string)
LlmResponses == {"json_object", "not_json", "json_not_object"}

\* what bridge_cross_modal returns for a JSON object (parsed) and for a text
\* that is not JSON (the fallback of the except branch);
\* user_text is None or a non-blank text; n_meta is len(modality_metadata)
BridgeReplies(user_text, n_meta) ==
    {[parsed |-> TRUE, queries |-> q, genes |-> g, alignment |-> "aligned",
      interpretation |-> "interpretation"] :
        q \in {[c \in CollectionSet |-> GeneratedQuery], EmptyDict}
              \cup (IF user_text # None THEN {[c \in CollectionSet |-> user_text]} ELSE {}),
        g \in GeneSets}
    \cup
    {[parsed |-> TRUE, queries |-> [c \in CollectionSet |-> GeneratedQuery], genes |-> {},
      alignment |-> a, interpretation |-> "interpretation"] : a \in Alignments}
    \cup
    {[parsed |-> FALSE,
      queries |-> [c \in CollectionSet |->
                     IF user_text # None THEN user_text ELSE DefaultQuery(c)],
      genes |-> g, alignment |-> "aligned", interpretation |-> "Search results found."] :
        g \in IF n_meta > 0 THEN GeneSets ELSE {{}}}

\* SparseEncoder._encode_single with the default vocabulary: the number of
\* vocabulary terms found in a text ("inhibitor", "expression" are terms)
SparseTerms(text) ==
    IF text \in {"kinase inhibitor", "gene expression"} THEN 1 ELSE 0

FILTERABLE_COLLECTIONS == {"proteins", "experiments", "structures", "images"}

\* the Phase 3 loop of Case 2 without the retry
Phase3Case2NoRetry(collection, r, down, store, bridge_output) ==
    LET query_text == IF collection \in DOMAIN bridge_output.queries
                      THEN bridge_output.queries[collection]
                      ELSE "protein function biology"
        filtered == /\ r.filter_by_genes
                    /\ bridge_output.genes # {}
                    /\ collection \in FILTERABLE_COLLECTIONS
    IN  IF "text" \in down THEN <<>>
        ELSE <<VectorSearch("phase3", collection, <<"text", query_text>>,
                            IF collection = "images" THEN "caption" ELSE "text",
                            r.top_k * 2, filtered, store)>>

\* one pass of the Phase 3 loop of Case 2: the calls made for one collection
\* (none when encoding the query raised)
Phase3Case2(collection, r, down, store, bridge_output) ==
    LET query_text == IF collection \in DOMAIN bridge_output.queries
                      THEN bridge_output.queries[collection]
                      ELSE "protein function biology"
        query_vec == <<"text", query_text>>
        filtered == /\ r.filter_by_genes
                    /\ bridge_output.genes # {}
                    /\ collection \in FILTERABLE_COLLECTIONS
        vec_name == IF collection = "images" THEN "caption" ELSE "text"
        first == VectorSearch("phase3", collection, query_vec, vec_name,
                              r.top_k * 2, filtered, store)
        retry == VectorSearch("phase3_retry", collection, query_vec, vec_name,
                              r.top_k * 2, FALSE, store)
    IN  IF "text" \in down THEN <<>>
        ELSE IF first.returned = 0 /\ filtered THEN <<first, retry>>
        ELSE <<first>>

\* one pass of the Phase 3 loop of Case 3
Phase3Case3(collection, r, s, down, store, bridge_output) ==
    LET query_text == IF collection \in DOMAIN bridge_output.queries
                         /\ bridge_output.queries[collection] # ""
                      THEN bridge_output.queries[collection]
                      ELSE IF r.text # None /\ r.text # "" THEN r.text
                      ELSE "biological function"
        reencode == query_text # r.text
        query_vec == IF reencode THEN <<"text", query_text>>
                     ELSE IF "text" \in DOMAIN s.vectors THEN s.vectors["text"]
                     ELSE <<>>
        \* encode_sparse returns a list; sparse_vectors is read under the key "text"
        query_sparse == IF reencode THEN "list"
                        ELSE IF "text" \in DOMAIN s.sparse_vectors
                        THEN s.sparse_vectors["text"]
                        ELSE None
        filtered == /\ r.filter_by_genes
                    /\ bridge_output.genes # {}
                    /\ collection \in FILTERABLE_COLLECTIONS
        vec_name == IF collection = "images" THEN "caption" ELSE "text"
        first == IF query_sparse = "dict"
                 THEN HybridSearch("phase3", collection, query_vec, vec_name,
                                   r.top_k * 2, filtered, store)
                 ELSE VectorSearch("phase3", collection, query_vec, vec_name,
                                   r.top_k * 2, filtered, store)
        retry == VectorSearch("phase3_retry", collection, query_vec, vec_name,
                              r.top_k * 2, FALSE, store)
    IN  IF reencode /\ "text" \in down THEN <<>>
        ELSE IF first.returned = 0 /\ filtered THEN <<first, retry>>
        ELSE <<first>>

RECURSIVE Concat(_)
Concat(lists) == IF lists = <<>> THEN <<>> ELSE Head(lists) \o Concat(Tail(lists))

\* Phase 3 searching every collection again
RestCollectionsAll(phase1_results) == COLLECTIONS

\* rest_collections: the collections Phase 1 left without an entry, in the
\* order of COLLECTIONS
RestCollections(phase1_results) ==
    SelectSeq(COLLECTIONS, LAMBDA c : c \notin DOMAIN phase1_results)

\* what node_search does with the reply the bridge gives (Cases 2 and 3)
Search(s, r, w, reply) ==
    IF s.search_case = 1
    THEN IF "text" \notin DOMAIN s.vectors
         THEN [calls |-> <<>>,
               state |-> [s EXCEPT !.all_results = EmptyDict,
                                   !.search_strategy = "CAS_1_ERROR"]]
         ELSE LET cs == Case1Search(s, r.top_k, w.store)
              IN  [calls |-> cs,
                   state |-> [s EXCEPT !.all_results = ResultsOf(cs),
                                       !.search_strategy = "CAS_1",
                                       !.alignment = None]]
    ELSE LET p1 == IF s.search_case = 2 THEN Phase1Case2(s, r.top_k, w.store)
                   ELSE Phase1Case3(s, r.top_k, w.store)
             phase1_results == ResultsOf(p1)
             bridge == [LlmCall("phase2", "bridge_cross_modal",
                                IF s.search_case = 2 THEN None ELSE r.text)
                           EXCEPT !.reply = IF reply.parsed THEN "json_object"
                                            ELSE "not_json"]
             rest == RestCollections(phase1_results)
             p3each == [i \in 1..Len(rest) |->
                          IF s.search_case = 2
                          THEN Phase3Case2(rest[i], r, w.down, w.store, reply)
                          ELSE Phase3Case3(rest[i], r, s, w.down, w.store, reply)]
             p3 == Concat(p3each)
             phase3_results == [c \in {rest[i] : i \in 1..Len(rest)} |->
                                  IF c \in DOMAIN ResultsOf(p3) THEN ResultsOf(p3)[c] ELSE 0]
         IN  [calls |-> p1 \o <<bridge>> \o p3,
              state |-> [s EXCEPT
                  !.phase1_results = phase1_results,
                  !.phase3_results = phase3_results,
                  !.all_results = [c \in DOMAIN phase1_results \cup DOMAIN phase3_results |->
                                     IF c \in DOMAIN phase3_results THEN phase3_results[c]
                                     ELSE phase1_results[c]],
                  !.bridge_output = <<reply>>,
                  !.alignment = reply.alignment,
                  !.search_strategy = IF s.search_case = 2 THEN "CAS_2" ELSE "CAS_3"]]

\* the number of items extract_metadata_for_bridge passes on
MetadataCount(s, r, w) ==
    LET p1 == IF s.search_case = 2 THEN Phase1Case2(s, r.top_k, w.store)
              ELSE Phase1Case3(s, r.top_k, w.store)
    IN  IF \E i \in 1..Len(p1) : p1[i].returned > 0 THEN 1 ELSE 0

\* the calls of node_search (Cases 2 and 3) up to a bridge call that raises:
\* json.loads gave something without .get, and only JSONDecodeError is caught
SearchBridgeRaised(s, r, w) ==
    LET p1 == IF s.search_case = 2 THEN Phase1Case2(s, r.top_k, w.store)
              ELSE Phase1Case3(s, r.top_k, w.store)
        bridge == [LlmCall("phase2", "bridge_cross_modal",
                           IF s.search_case = 2 THEN None ELSE r.text)
                      EXCEPT !.reply = "json_not_object"]
    IN  p1 \o <<bridge>>

\* node 2; an exception of bridge_cross_modal leaves the workflow and
\* run_recommendation answers with the error response
NodeSearch ==
    /\ pc = "search"
    /\ \/ /\ st.search_case # 1
          /\ "json_not_object" \in LlmResponses
          /\ calls' = calls \o SearchBridgeRaised(st, req, world)
          /\ st' = st
          /\ pc' = "done"
          /\ response' = <<ErrorResponse>>
       \/ \E kind \in LlmResponses \ {"json_not_object"} :
             \E reply \in {b \in BridgeReplies(IF st.search_case = 3 THEN req.text
                                                ELSE None,
                                                MetadataCount(st, req, world)) :
                               b.parsed <=> kind = "json_object"} :
                LET out == Search(st, req, world, reply)
                IN  /\ st' = out.state
                    /\ calls' = calls \o out.calls
                    /\ pc' = "rank_enrich"
                    /\ response' = response
    /\ UNCHANGED <<req, world, emb_cache, notPipe>>

(***************************************************************************)
(* node_rank_enrich and build_response.                                    *)
(***************************************************************************)
ExploratoryTexts == {"find novel kinase"}

\* _is_exploratory_query on the texts above
IsExploratoryQuery(query) == query \in ExploratoryTexts

RECURSIVE SumOver(_, _)
SumOver(f, dom) ==
    IF dom = {} THEN 0
    ELSE LET c == CHOOSE x \in dom : TRUE IN f[c] + SumOver(f, dom \ {c})

\* _has_rich_results
HasRichResults(results) ==
    /\ SumOver(results, DOMAIN results) >= 5
    /\ Cardinality({c \in DOMAIN results : results[c] >= 2}) >= 2

\* node 3, then build_response
\* one weight whatever the label
MmrLambdaFixed(alignment) == 7

\* MMR_LAMBDA.get(alignment, 0.7), in tenths
MmrLambda(alignment) ==
    CASE alignment = "aligned" -> 7
      [] alignment = "partial" -> 5
      [] alignment = "divergent" -> 3
      [] alignment = None -> 7
      [] OTHER -> 7

NodeRankEnrich ==
    /\ pc = "rank_enrich"
    /\ LET reranked_results ==
               [c \in DOMAIN st.all_results |->
                   Min2(req.top_k, Min2(st.all_results[c], 10))]
           input_text == IF req.text = None THEN "" ELSE req.text
           should_activate == \/ st.search_case \in {2, 3}
                              \/ IsExploratoryQuery(input_text)
                              \/ HasRichResults(reranked_results)
           design == IF req.include_design_candidates /\ should_activate
                     THEN <<LlmCall("rank_enrich", "generate_design_candidates", input_text)>>
                     ELSE <<>>
           from_bridge == st.bridge_output # <<>>
                          /\ st.bridge_output[1].interpretation # ""
           summary == IF req.include_summary /\ ~from_bridge
                      THEN <<LlmCall("rank_enrich", "generate_summary", input_text)>>
                      ELSE <<>>
           summary_text == IF ~req.include_summary THEN ""
                           ELSE IF from_bridge THEN st.bridge_output[1].interpretation
                           ELSE "generated"
           mmr_lambda == MmrLambda(st.alignment)
       IN  /\ calls' = calls \o design \o summary
           /\ st' = [st EXCEPT !.reranked_results = reranked_results,
                               !.mmr_lambda = [c \in {d \in DOMAIN st.all_results :
                                                        st.all_results[d] > 0} |-> mmr_lambda],
                               !.summary = summary_text]
           /\ response' = <<[input_type |-> st.input_type,
                             processing_time |-> "elapsed",
                             search_strategy |-> st.search_strategy,
                             divergence_level |-> IF st.alignment = None THEN "aligned"
                                                  ELSE st.alignment,
                             quadrant |-> [c \in CollectionSet |->
                                             IF c \in DOMAIN reranked_results
                                             THEN reranked_results[c] ELSE 0],
                             summary |-> summary_text]>>
    /\ pc' = "done"
    /\ UNCHANGED <<req, world, emb_cache, notPipe>>

Next ==
    \/ NodeEncode
    \/ NodeSearch
    \/ NodeRankEnrich

Spec == InitPipe /\ [][Next]_vars

(***************************************************************************)
(* The same workflow with the calls of node_search taken one by one: a     *)
(* call is in flight from the moment it is made until it returns.          *)
(***************************************************************************)
StepRequests ==
    {r \in Requests :
        /\ r.text \in {None, "kinase inhibitor"}
        /\ r.sequence \in {None, "MKTAYIAKQRQISFVKSH"}
        /\ r.top_k = 1
        /\ r.filter_by_genes /\ r.include_summary /\ r.include_design_candidates}
StepWorlds ==
    {w \in Worlds :
        /\ w.store.points = MaxPoints /\ w.store.tagged = 0 /\ w.store.failing = {}
        /\ w.down \subseteq {"image"}}

\* the calls node_search makes for a request, in program order
PlansOf(r, w) ==
    LET s == AfterEncode(InitialState, Encode(r, w.down, EmptyDict))
    IN  {Search(s, r, w, reply).calls :
            reply \in BridgeReplies(IF s.search_case = 3 THEN r.text ELSE None,
                                    MetadataCount(s, r, w))}

\* any number of calls may be in flight
CanStartAnytime(calls_in_flight) == TRUE

\* vector_search is an ordinary call and bridge_cross_modal is awaited where
\* it is made: the statement after a call runs when the call has returned
CanStart(calls_in_flight) == calls_in_flight = {}

InitSteps ==
    /\ ConcIdle
    /\ MmrIdle
    /\ PipeIdle
    /\ lru = EmptyLru /\ default_ttl = NoTtl /\ now = 0
    /\ used = <<>> /\ lastOp = NoOp
    /\ graph_pc = "off"
    /\ graph_in = [results |-> <<>>, score_threshold |-> 50, edge_threshold |-> 20]
    /\ graph_out = [nodes |-> <<>>, edges |-> <<>>, node_payloads |-> <<>>]
    /\ step_pc = "encode"
    /\ \E r \in StepRequests, w \in StepWorlds : step_plan \in PlansOf(r, w)
    /\ step_i = 0
    /\ inflight = {}
    /\ stage_runs = [n \in Stages |-> 0]

\* the workflow runs node_encode
StepEncode ==
    /\ step_pc = "encode"
    /\ step_pc' = "search"
    /\ stage_runs' = [stage_runs EXCEPT !["encode"] = @ + 1]
    /\ UNCHANGED <<step_plan, step_i, inflight, notSteps>>

\* the workflow enters node_search
StepSearch ==
    /\ step_pc = "search"
    /\ stage_runs["search"] = 0
    /\ stage_runs' = [stage_runs EXCEPT !["search"] = @ + 1]
    /\ UNCHANGED <<step_pc, step_plan, step_i, inflight, notSteps>>

\* node_search makes its next call
CallStart ==
    /\ step_pc = "search"
    /\ stage_runs["search"] = 1
    /\ step_i < Len(step_plan)
    /\ CanStart(inflight)
    /\ step_i' = step_i + 1
    /\ inflight' = inflight \cup {step_i + 1}
    /\ UNCHANGED <<step_pc, step_plan, stage_runs, notSteps>>

\* a call returns
CallReturn ==
    /\ step_pc = "search"
    /\ \E i \in inflight : inflight' = inflight \ {i}
    /\ UNCHANGED <<step_pc, step_plan, step_i, stage_runs, notSteps>>

\* node_search returns
SearchReturn ==
    /\ step_pc = "search"
    /\ stage_runs["search"] = 1
    /\ step_i = Len(step_plan)
    /\ inflight = {}
    /\ step_pc' = "rank_enrich"
    /\ UNCHANGED <<step_plan, step_i, inflight, stage_runs, notSteps>>

\* the workflow runs node_rank_enrich and ends
StepRankEnrich ==
    /\ step_pc = "rank_enrich"
    /\ step_pc' = "done"
    /\ stage_runs' = [stage_runs EXCEPT !["rank_enrich"] = @ + 1]
    /\ UNCHANGED <<step_plan, step_i, inflight, notSteps>>

NextSteps ==
    \/ StepEncode
    \/ StepSearch
    \/ CallStart
    \/ CallReturn
    \/ SearchReturn
    \/ StepRankEnrich

SpecSteps == InitSteps /\ [][NextSteps]_vars

(***************************************************************************)
(* Claims about the pipeline.                                              *)
(***************************************************************************)
\* the workflow raised and run_recommendation answered with the error response
Aborted == pc = "done" /\ response = <<ErrorResponse>>
\* node_encode returned / node_search returned
Encoded == pc \in {"search", "rank_enrich", "done"} /\ ~Aborted
Searched == pc \in {"rank_enrich", "done"} /\ ~Aborted

QdrantCalls == SelectSeq(calls, LAMBDA c : c.svc = "qdrant")
LlmCalls == SelectSeq(calls, LAMBDA c : c.svc = "llm")
CallsAt(phase) == SelectSeq(calls, LAMBDA c : c.phase = phase)

\* C1: for a request whose only present modality is text, node_encode
\* sets search case 1, and node_search queries each of the five collections
\* exactly once, with the dense vector of the text, in the caption slot for
\* images and the text slot for the other four (limit 2 * top_k, no filter).
\* A run in which the text encoder raises never reaches these stages.
C1_TextOnlyPlan ==
    PresentModalities(req) = {"text"} =>
        /\ Encoded => st.search_case = 1 /\ st.input_type = <<"text_only">>
        /\ Searched =>
             /\ Len(QdrantCalls) = Cardinality(CollectionSet)
             /\ \A c \in CollectionSet :
                  \E i \in 1..Len(QdrantCalls) :
                     /\ QdrantCalls[i].collection = c
                     /\ QdrantCalls[i].op = "vector_search"
                     /\ QdrantCalls[i].vector = <<"text", req.text>>
                     /\ QdrantCalls[i].vector_name =
                            (IF c = "images" THEN "caption" ELSE "text")
                     /\ QdrantCalls[i].limit = 2 * req.top_k
                     /\ ~QdrantCalls[i].filtered

\* a text-only run got to its response with results for images
C1_Witness ==
    /\ PresentModalities(req) = {"text"}
    /\ pc = "done" /\ ~Aborted
    /\ Len(QdrantCalls) = 5
    /\ response[1].quadrant["images"] > 0

\* C2 as stated: for a request with only text, no call to the LLM client
\* occurs during the run.
C2_NoLlmCallAtAll ==
    PresentModalities(req) = {"text"} => Len(LlmCalls) = 0

\* C2, amended: for a request with only text, node_search runs no bridge step
\* and makes no LLM call, and leaves bridge_output and alignment unset; the
\* only LLM calls of the run are those of node_rank_enrich: generate_summary
\* exactly when include_summary is set, generate_design_candidates exactly
\* when include_design_candidates is set and the query is exploratory or the
\* results are rich.
C2_NoBridgeInCase1 ==
    PresentModalities(req) = {"text"} =>
        /\ \A i \in 1..Len(LlmCalls) :
              /\ LlmCalls[i].phase = "rank_enrich"
              /\ LlmCalls[i].op \in {"generate_summary", "generate_design_candidates"}
        /\ Searched => st.bridge_output = <<>> /\ st.alignment = None
        /\ pc = "rank_enrich" => Len(LlmCalls) = 0
        /\ (pc = "done" /\ ~Aborted) =>
              /\ req.include_summary <=>
                    \E i \in 1..Len(LlmCalls) : LlmCalls[i].op = "generate_summary"
              /\ (\E i \in 1..Len(LlmCalls) : LlmCalls[i].op = "generate_design_candidates")
                    <=> /\ req.include_design_candidates
                        /\ \/ IsExploratoryQuery(req.text)
                           \/ HasRichResults(st.reranked_results)

\* a text-only run ended with no bridge output and with the summary asked of the LLM
C2_Witness ==
    /\ PresentModalities(req) = {"text"}
    /\ pc = "done" /\ ~Aborted
    /\ st.bridge_output = <<>>
    /\ \E i \in 1..Len(LlmCalls) : LlmCalls[i].op = "generate_summary"

\* the home collection of a modality
HomeCollection(m) ==
    CASE m = "image" -> "images" [] m = "sequence" -> "proteins" [] OTHER -> "structures"

\* the input a modality was given in the request
ModalInput(r, m) ==
    CASE m = "image" -> r.image_path [] m = "sequence" -> r.sequence
      [] OTHER -> r.structure_path

\* the one non-text modality of a request that has exactly one, and no text
OnlyModality(r) == CHOOSE m \in PresentModalities(r) : TRUE
OneModalNoText(r) ==
    /\ Cardinality(PresentModalities(r)) = 1
    /\ "text" \notin PresentModalities(r)

\* the calls of Phase 1, the bridge and Phase 3 come in that order
PhasesInOrder ==
    \A i \in 1..Len(calls), j \in 1..Len(calls) :
        /\ (calls[i].phase = "phase1" /\ calls[j].phase = "phase2") => i < j
        /\ (calls[i].phase = "phase2" /\ calls[j].phase \in {"phase3", "phase3_retry"}) => i < j

ToSet(list) == {list[i] : i \in 1..Len(list)}

C5_FilterRetry ==
    Searched =>
        /\ \A i \in 1..Len(calls) :
              calls[i].phase = "phase3" =>
                 LET c == calls[i].collection
                     retries == {j \in 1..Len(calls) :
                                   calls[j].phase = "phase3_retry" /\ calls[j].collection = c}
                 IN  IF calls[i].filtered /\ calls[i].returned = 0
                     THEN /\ retries = {i + 1}
                          /\ calls[i + 1].op = "vector_search"
                          /\ calls[i + 1].vector = calls[i].vector
                          /\ calls[i + 1].vector_name = calls[i].vector_name
                          /\ calls[i + 1].limit = calls[i].limit
                          /\ ~calls[i + 1].filtered
                          /\ st.phase3_results[c] = calls[i + 1].returned
                          /\ st.all_results[c] = calls[i + 1].returned
                     ELSE /\ retries = {}
                          /\ st.phase3_results[c] = calls[i].returned
                          /\ st.all_results[c] = calls[i].returned
        /\ \A j \in 1..Len(calls) :
              calls[j].phase = "phase3_retry" =>
                 /\ j > 1
                 /\ calls[j - 1].phase = "phase3"
                 /\ calls[j - 1].collection = calls[j].collection

\* the filter matched nothing, the retry brought results, and another
\* collection of the same run was searched without filter and not retried
C5_Witness ==
    /\ Searched
    /\ \E j \in 1..Len(calls) :
          /\ calls[j].phase = "phase3_retry"
          /\ calls[j].returned > 0
          /\ calls[j - 1].filtered /\ calls[j - 1].returned = 0
    /\ \E i \in 1..Len(calls) :
          /\ calls[i].phase = "phase3" /\ ~calls[i].filtered
          /\ i < Len(calls) => calls[i + 1].phase # "phase3_retry"


\* the encoders that raise during the run and whose modality the request carries
FailedModalities == world.down \cap PresentModalities(req)
\* bridge_cross_modal raised in this run
BridgeRaised == \E i \in 1..Len(calls) : calls[i].reply = "json_not_object"

\* C13: encoding failure tolerance.  When the encoder of a present modality
\* (text, sequence, image or structure) fails, the run is not aborted: the
\* modality is absent from the vectors, node_search and node_rank_enrich
\* still run and the response is not the error response (runs in which the
\* bridge reply itself breaks the run are left aside).
C13_EncodingFailureTolerated ==
    (pc = "done" /\ FailedModalities # {} /\ ~BridgeRaised) =>
        /\ ~Aborted
        /\ response # <<>>
        /\ response[1].input_type # <<"error">>
        /\ \A m \in FailedModalities : m \notin DOMAIN st.vectors

\* what the code does give: a failing image or structure encoder leaves the
\* run going, without that vector; a failing text or sequence encoder ends it
\* with the error response, before any search
C13_ImageStructureTolerated ==
    (pc = "done" /\ FailedModalities # {} /\ ~BridgeRaised) =>
        IF FailedModalities \subseteq {"image", "structure"}
        THEN /\ ~Aborted
             /\ response[1].input_type # <<"error">>
             /\ \A m \in FailedModalities : m \notin DOMAIN st.vectors
        ELSE /\ Aborted
             /\ calls = <<>>

\* the text encoder raised for a request with a text: the run ended with the
\* error response
C13_Witness ==
    /\ pc = "done"
    /\ FailedModalities = {"text"}
    /\ Aborted
    /\ calls = <<>>


\* the vector-store calls made for one collection, in order
CallsFor(c) == SelectSeq(QdrantCalls, LAMBDA q : q.collection = c)

\* C14: collection search failure isolation.  In a run that searches (Case 1,
\* and Phases 1 and 3 of Cases 2 and 3) while the queries of one collection
\* fail, that collection ends with an empty result list, every other
\* collection is still searched and keeps what its last query found in the
\* store, and the run is not aborted: it ends with a response that is not the
\* error response (runs in which the bridge reply breaks the run are left
\* aside).
C14_FailureIsolated ==
    (/\ pc \in {"rank_enrich", "done"}
     /\ world.store.failing # {}
     /\ QdrantCalls # <<>>
     /\ ~BridgeRaised) =>
        /\ ~Aborted
        /\ \A c \in CollectionSet : CallsFor(c) # <<>>
        /\ DOMAIN st.all_results = CollectionSet
        /\ \A c \in world.store.failing : st.all_results[c] = 0
        /\ \A c \in CollectionSet \ world.store.failing :
              LET last == CallsFor(c)[Len(CallsFor(c))]
              IN  /\ st.all_results[c] = last.returned
                  /\ last.returned =
                        (IF last.limit < (IF last.filtered THEN world.store.tagged
                                          ELSE world.store.points)
                         THEN last.limit
                         ELSE IF last.filtered THEN world.store.tagged
                              ELSE world.store.points)
                  /\ st.all_results[c] > 0
        /\ pc = "done" => response[1].input_type # <<"error">>

\* a sequence-only run whose Phase-1 collection (proteins) failed: proteins
\* is empty, the four Phase-3 collections have results, the response is built
C14_Witness ==
    /\ pc = "done" /\ ~Aborted
    /\ world.store.failing = {"proteins"}
    /\ PresentModalities(req) = {"sequence"}
    /\ Len(CallsAt("phase1")) = 1
    /\ st.all_results["proteins"] = 0
    /\ \A c \in CollectionSet \ {"proteins"} : st.all_results[c] > 0
    /\ response[1].input_type # <<"error">>

\* a text-only run (Case 1) with the articles queries failing
C14_WitnessCase1 ==
    /\ pc = "done" /\ ~Aborted
    /\ world.store.failing = {"articles"}
    /\ PresentModalities(req) = {"text"}
    /\ Len(QdrantCalls) = 5
    /\ st.all_results["articles"] = 0
    /\ st.all_results["structures"] > 0


\* the generic phrases of the fallback
GenericPhrases ==
    {"protein function", "gene expression", "protein structure", "pathway diagram",
     "protein 3D structure"}

\* the bridge output of the state is the deterministic fallback
IsFallback(out) ==
    /\ Len(out) = 1
    /\ DOMAIN out[1].queries = CollectionSet
    /\ \A c \in CollectionSet :
          IF "text" \in PresentModalities(req)
          THEN out[1].queries[c] = req.text
          ELSE out[1].queries[c] \in GenericPhrases
    /\ (\A c \in DOMAIN st.phase1_results : st.phase1_results[c] = 0) => out[1].genes = {}
    /\ out[1].alignment = "aligned"
    /\ st.alignment = "aligned"

\* C15: Reasoner malformed output.  Whenever the bridge response cannot be
\* parsed into the expected structured object (it is not JSON, or it is JSON
\* but not an object), bridge_cross_modal returns the deterministic fallback
\* (each query the user text if present, else a generic phrase; genes from
\* the Phase-1 metadata; alignment aligned) and no error reaches node_search:
\* the run is not aborted.
C15_MalformedFallback ==
    \A i \in 1..Len(calls) :
        (calls[i].op = "bridge_cross_modal" /\ calls[i].reply # "json_object") =>
            /\ ~Aborted
            /\ IsFallback(st.bridge_output)

\* what the code does give: a response that is not JSON at all is answered
\* with the fallback and the run goes on
C15_NotJsonFallback ==
    \A i \in 1..Len(calls) :
        (calls[i].op = "bridge_cross_modal" /\ calls[i].reply = "not_json") =>
            /\ ~Aborted
            /\ IsFallback(st.bridge_output)

\* the bridge response was JSON but not an object: after the Phase-1 search
\* the run ended with the error response, Phase 3 never ran
C15_Witness ==
    /\ pc = "done"
    /\ BridgeRaised
    /\ Aborted
    /\ Len(CallsAt("phase1")) > 0
    /\ Len(CallsAt("phase3")) = 0
    /\ st.bridge_output = <<>>

\* the fallback was used for a response that is not JSON, with the user text
C15_WitnessFallback ==
    /\ pc = "done" /\ ~Aborted
    /\ \E i \in 1..Len(calls) : calls[i].reply = "not_json"
    /\ "text" \in PresentModalities(req)
    /\ IsFallback(st.bridge_output)


\* C16: a request with no usable input at all (no non-blank text, no
\* sequence longer than 10 characters, no image, no structure) ends with the
\* top-level error response, whose input type is the error tag, and never
\* with a response shaped like a success.
C16_NoInputIsError ==
    (pc = "done" /\ PresentModalities(req) = {}) =>
        /\ response # <<>>
        /\ response[1].input_type = <<"error">>
        /\ response = <<ErrorResponse>>

\* what the code does give: such a request runs through the three nodes
\* without a query to the store, and its response is built from the final
\* state like any other: input type "unknown", search strategy CAS_1_ERROR,
\* empty result lists, and the summary the LLM was asked for
C16_NoInputUnknown ==
    PresentModalities(req) = {} =>
        /\ QdrantCalls = <<>>
        /\ ~BridgeRaised
        /\ pc = "done" =>
              /\ response # <<ErrorResponse>>
              /\ response[1].input_type = <<"unknown">>
              /\ response[1].search_strategy = "CAS_1_ERROR"
              /\ \A c \in CollectionSet : response[1].quadrant[c] = 0
              /\ req.include_summary <=>
                    \E i \in 1..Len(LlmCalls) : LlmCalls[i].op = "generate_summary"
              /\ req.include_summary => response[1].summary = "generated"

\* a request with a blank text and a sequence of 8 residues got the response
\* of a run that went through, tagged "unknown"
C16_Witness ==
    /\ pc = "done"
    /\ req.text = BlankText /\ req.sequence = "MKTAYIAK"
    /\ req.image_path = None /\ req.structure_path = None
    /\ response # <<ErrorResponse>>
    /\ response[1].input_type = <<"unknown">>
    /\ response[1].summary = "generated"


\* a node raised during the run: the text or sequence encoder in node_encode,
\* or bridge_cross_modal in node_search
StageRaised ==
    \/ {"text", "sequence"} \cap FailedModalities # {}
    \/ BridgeRaised

\* the runs of Spec that ask for one result of a full, untagged store, with
\* the summary, the design candidates and the gene filter left on
InitLive ==
    /\ InitPipe
    /\ req.top_k = 1
    /\ req.filter_by_genes /\ req.include_summary /\ req.include_design_candidates
    /\ world.store.points = MaxPoints /\ world.store.tagged = 0

\* run_recommendation with its nodes always getting to run: the workflow
\* awaits each node in turn and every call a node makes returns or raises
SpecLive == InitLive /\ [][Next]_vars /\ WF_vars(Next)

\* the response when run_recommendation has returned, and none before
C17_ResponseShape ==
    /\ pc # "done" => response = <<>>
    /\ pc = "done" =>
            /\ Len(response) = 1
            /\ response[1].processing_time = "elapsed"
            /\ IF StageRaised
               THEN /\ response[1].input_type = <<"error">>
                    /\ \A c \in CollectionSet : response[1].quadrant[c] = 0
               ELSE /\ response[1].input_type = st.input_type
                    /\ response[1].input_type # <<"error">>
                    /\ response[1].search_strategy = st.search_strategy
                    /\ response[1].summary = st.summary
                    /\ \A c \in CollectionSet :
                          response[1].quadrant[c] =
                             (IF c \in DOMAIN st.reranked_results
                              THEN st.reranked_results[c] ELSE 0)
                    /\ st.search_strategy \in {"CAS_1", "CAS_1_ERROR", "CAS_2", "CAS_3"}
                    /\ st.search_case # 1 => st.bridge_output # <<>>

C17_WitnessCompleted ==
    /\ pc = "done"
    /\ ~StageRaised
    /\ st.search_case = 3
    /\ response[1].input_type = st.input_type
    /\ response[1].quadrant["articles"] > 0


\* the phase a call belongs to (the retry of a Phase-3 search is of Phase 3)
PhaseOf(call) == IF call.phase = "phase3_retry" THEN "phase3" ELSE call.phase

\* the next call of the plan is a search of the same phase as a call that is
\* in flight, for another collection: the two do not depend on one another
NextIsIndependent ==
    /\ step_pc = "search"
    /\ step_i < Len(step_plan)
    /\ inflight # {}
    /\ step_plan[step_i + 1].svc = "qdrant"
    /\ \A i \in inflight :
          /\ step_plan[i].svc = "qdrant"
          /\ PhaseOf(step_plan[i]) = PhaseOf(step_plan[step_i + 1])
          /\ step_plan[i].collection # step_plan[step_i + 1].collection

\* C18: the per-collection searches of Case 1, and of one phase of Cases 2
\* and 3, are issued concurrently: while one is in flight, the next search of
\* the same phase can be started; and all have returned when node_search
\* returns.
C18_IssuedConcurrently ==
    /\ NextIsIndependent => ENABLED CallStart
    /\ step_pc \in {"rank_enrich", "done"} =>
          inflight = {} /\ step_i = Len(step_plan)

\* what the code does give: the searches are made one after another, never
\* two calls in flight, and every call has returned when node_search returns
C18_OneAtATime ==
    /\ Cardinality(inflight) <= 1
    /\ inflight # {} => ~ENABLED CallStart
    /\ step_pc \in {"rank_enrich", "done"} =>
          inflight = {} /\ step_i = Len(step_plan)

\* Case 1: the search of proteins is in flight, the search of articles is
\* next and cannot be started
C18_Witness ==
    /\ step_pc = "search"
    /\ Len(step_plan) = 5
    /\ step_plan[1].phase = "cas1"
    /\ inflight = {1}
    /\ step_i = 1
    /\ NextIsIndependent
    /\ ~ENABLED CallStart


\* call i of the plan has been made / has returned
Started(i) == i <= step_i
Returned(i) == i <= step_i /\ i \notin inflight

\* C19: ordering.  node_encode, node_search and node_rank_enrich run once
\* each, in that order, and the calls of node_search are made while it runs.
\* In Cases 2 and 3 the bridge call starts only after every Phase-1 search
\* has returned, and a Phase-3 search starts only after the bridge call has
\* returned.
C19_Ordering ==
    /\ \A n \in Stages : stage_runs[n] <= 1
    /\ stage_runs["search"] = 1 => stage_runs["encode"] = 1
    /\ stage_runs["rank_enrich"] = 1 => stage_runs["search"] = 1 /\ inflight = {}
    /\ step_pc = "done" => \A n \in Stages : stage_runs[n] = 1
    /\ step_i > 0 => stage_runs["search"] = 1
    /\ stage_runs["rank_enrich"] = 1 => step_i = Len(step_plan)
    /\ \A i \in 1..Len(step_plan), j \in 1..Len(step_plan) :
          /\ ( /\ Started(i)
               /\ step_plan[i].op = "bridge_cross_modal"
               /\ step_plan[j].phase = "phase1" ) => Returned(j)
          /\ ( /\ Started(i)
               /\ step_plan[i].phase \in {"phase3", "phase3_retry"}
               /\ step_plan[j].op = "bridge_cross_modal" ) => Returned(j)

\* the bridge call is in flight after two Phase-1 searches that have
\* returned, with the Phase-3 searches still to be made
C19_Witness ==
    /\ step_pc = "search"
    /\ inflight = {3}
    /\ step_plan[3].op = "bridge_cross_modal"
    /\ step_plan[1].phase = "phase1" /\ step_plan[2].phase = "phase1"
    /\ Returned(1) /\ Returned(2)
    /\ Len(step_plan) > 3
    /\ step_plan[4].phase = "phase3"

\* a run with the three phases ended: each node ran once
C19_WitnessDone ==
    /\ step_pc = "done"
    /\ \A n \in Stages : stage_runs[n] = 1
    /\ \E i \in 1..Len(step_plan) : step_plan[i].phase = "phase3"
    /\ \E i \in 1..Len(step_plan) : step_plan[i].phase = "phase1"


\* the collections the Phase-3 calls (retries included) were made on
Phase3Called ==
    {calls[i].collection : i \in {k \in 1..Len(calls) :
                                    calls[k].phase \in {"phase3", "phase3_retry"}}}

\* C20: in Cases 2 and 3, once node_search has returned, Phase 3 has an
\* entry for exactly the collections without a Phase-1 entry and searched no
\* other collection; all_results has one entry for each of the five
\* collections, the Phase-1 and Phase-3 key sets are disjoint, and every
\* Phase-1 entry is in all_results as Phase 1 left it.
C20_RestPartition ==
    ( /\ pc \in {"rank_enrich", "done"}
      /\ st.search_case \in {2, 3}
      /\ ~BridgeRaised /\ ~StageRaised )
    => /\ DOMAIN st.phase3_results = CollectionSet \ DOMAIN st.phase1_results
       /\ Phase3Called \subseteq CollectionSet \ DOMAIN st.phase1_results
       /\ DOMAIN st.all_results = CollectionSet
       /\ DOMAIN st.phase1_results \cap DOMAIN st.phase3_results = {}
       /\ \A c \in DOMAIN st.phase1_results : st.all_results[c] = st.phase1_results[c]
       /\ \A c \in DOMAIN st.phase3_results : st.all_results[c] = st.phase3_results[c]

\* a Case 2 or 3 run where Phase 1 found items in two collections and
\* Phase 3 found items in the other three
C20_Witness ==
    /\ pc = "done"
    /\ st.search_case \in {2, 3}
    /\ ~BridgeRaised /\ ~StageRaised
    /\ Cardinality(DOMAIN st.phase1_results) = 2
    /\ Cardinality(DOMAIN st.phase3_results) = 3
    /\ \A c \in DOMAIN st.phase1_results : st.phase1_results[c] > 0
    /\ \A c \in DOMAIN st.phase3_results : st.phase3_results[c] > 0
    /\ Phase3Called = DOMAIN st.phase3_results


\* the first search of each Phase-3 collection (the retry is always dense)
Phase3First == SelectSeq(calls, LAMBDA c : c.phase = "phase3")

\* C21: in Case 3, a Phase-3 collection is searched with hybrid_search
\* exactly when the sparse encoding of its query text has terms: hybrid
\* whenever a non-empty sparse vector is available, dense-only otherwise.
C21_HybridWhenSparse ==
    (Searched /\ st.search_case = 3)
    => \A i \in 1..Len(Phase3First) :
          Phase3First[i].op = "hybrid_search"
              <=> SparseTerms(Phase3First[i].vector[2]) > 0

\* what the code does: no Phase-3 search of Case 3 is a hybrid search, the
\* Stage-1 sparse vector being stored under "text_sparse" and read under
\* "text", and the sparse encoding of a bridge query being a list
C21_DenseOnly ==
    \A i \in 1..Len(calls) : calls[i].op # "hybrid_search"

\* a Case 3 run whose Phase 3 searched with the user's own text, which has
\* sparse terms stored by Stage 1, and the search was dense-only
C21_Witness ==
    /\ pc = "done"
    /\ st.search_case = 3
    /\ ~StageRaised
    /\ req.text = "kinase inhibitor"
    /\ "text_sparse" \in DOMAIN st.sparse_vectors
    /\ SparseTerms(req.text) > 0
    /\ \E i \in 1..Len(Phase3First) :
          /\ Phase3First[i].vector = <<"text", req.text>>
          /\ Phase3First[i].op = "vector_search"


\* the presence rules, read off the request: trimmed text not empty, a
\* sequence of more than 10 residues, an image or structure reference given
TextGiven == req.text # None /\ Strip(req.text) # ""
NonTextGiven ==
    {m \in {"sequence", "image", "structure"} :
        \/ m = "sequence" /\ req.sequence # None /\ Len(req.sequence) > 10
        \/ m = "image" /\ req.image_path # None
        \/ m = "structure" /\ req.structure_path # None}

\* C22: Stage 1 classification.  After node_encode, the state's has_text
\* and modalities follow the presence rules, and the search case is 1
\* exactly when text is the only present modality, 2 exactly when some
\* non-text modality is present and text is not, 3 exactly when text and
\* some non-text modality are present.
C22_Classification ==
    Encoded =>
        /\ st.has_text <=> TextGiven
        /\ ToSet(st.modalities) = NonTextGiven
        /\ st.search_case = 1 <=> (TextGiven /\ NonTextGiven = {})
        /\ st.search_case = 2 <=> (~TextGiven /\ NonTextGiven # {})
        /\ st.search_case = 3 <=> (TextGiven /\ NonTextGiven # {})

\* what the code does: the same, for a request with a present modality; a
\* request with none is put in search case 1 too, with input type "unknown"
C22_ClassifiedOrUnknown ==
    Encoded =>
        /\ st.has_text <=> TextGiven
        /\ ToSet(st.modalities) = NonTextGiven
        /\ st.search_case \in {1, 2, 3}
        /\ st.search_case = 1 <=> NonTextGiven = {}
        /\ st.search_case = 2 <=> (~TextGiven /\ NonTextGiven # {})
        /\ st.search_case = 3 <=> (TextGiven /\ NonTextGiven # {})
        /\ (~TextGiven /\ NonTextGiven = {}) => st.input_type = <<"unknown">>
        /\ (TextGiven /\ NonTextGiven = {}) => st.input_type = <<"text_only">>

\* node_encode has classified a request with a blank text and a sequence of
\* 8 residues: search case 1 without a present text
C22_Witness ==
    /\ pc = "search"
    /\ req.text = BlankText
    /\ req.sequence # None /\ Len(req.sequence) <= 10
    /\ req.image_path = None /\ req.structure_path = None
    /\ ~st.has_text
    /\ st.modalities = <<>>
    /\ st.search_case = 1


\* C25: the MMR weight of Stage 3 follows the Stage-2 alignment label: 0.7
\* (7 tenths) when it is aligned or there is none (Case 1), 0.5 when
\* partial, 0.3 when divergent; every collection with results is reranked,
\* and all of them with that one weight.
C25_MmrLambda ==
    (pc = "done" /\ ~Aborted) =>
        /\ DOMAIN st.mmr_lambda = {c \in DOMAIN st.all_results : st.all_results[c] > 0}
        /\ \A c \in DOMAIN st.mmr_lambda :
              /\ st.alignment \in {"aligned", None} => st.mmr_lambda[c] = 7
              /\ st.alignment = "partial" => st.mmr_lambda[c] = 5
              /\ st.alignment = "divergent" => st.mmr_lambda[c] = 3
        /\ \A c \in DOMAIN st.mmr_lambda, d \in DOMAIN st.mmr_lambda :
              st.mmr_lambda[c] = st.mmr_lambda[d]
        /\ st.search_case = 1 => st.alignment = None

\* a run whose bridge reply said "divergent" reranked its five collections
\* with 0.3
C25_Witness ==
    /\ pc = "done"
    /\ st.search_case \in {2, 3}
    /\ st.alignment = "divergent"
    /\ DOMAIN st.mmr_lambda = CollectionSet
    /\ \A c \in CollectionSet : st.mmr_lambda[c] = 3

\* a "partial" run (0.5) and a Case 1 run (no label, 0.7)
C25_WitnessPartial ==
    /\ pc = "done"
    /\ st.alignment = "partial"
    /\ \E c \in DOMAIN st.mmr_lambda : st.mmr_lambda[c] = 5

C25_WitnessCase1 ==
    /\ pc = "done"
    /\ st.search_case = 1
    /\ st.alignment = None
    /\ DOMAIN st.mmr_lambda = CollectionSet
    /\ \A c \in CollectionSet : st.mmr_lambda[c] = 7


\* the items of the results given to _build_graph, with their collection
GraphItems ==
    UNION {{[id |-> graph_in.results[k].items[i].id,
             collection |-> graph_in.results[k].collection,
             score |-> graph_in.results[k].items[i].score] :
               i \in 1..Len(graph_in.results[k].items)} :
           k \in 1..Len(graph_in.results)}

NodesFrom(c) == {i \in 1..Len(graph_out.nodes) : graph_out.nodes[i].collection = c}

\* C26: graph nodes.  Every node of the built graph is an item of the
\* reranked results, under its collection, with score >= the score
\* threshold; no two nodes have the same id, within a collection or across
\* collections; at most max_nodes_per_collection (5) nodes come from one
\* collection.
C26_GraphNodes ==
    graph_pc = "out" =>
        /\ \A i \in 1..Len(graph_out.nodes) :
              /\ graph_out.nodes[i] \in GraphItems
              /\ graph_out.nodes[i].score >= graph_in.score_threshold
        /\ \A i \in 1..Len(graph_out.nodes), j \in 1..Len(graph_out.nodes) :
              i # j => graph_out.nodes[i].id # graph_out.nodes[j].id
        /\ \A c \in CollectionSet : Cardinality(NodesFrom(c)) <= MaxNodesPerCollection
        /\ DOMAIN graph_out.node_payloads = NodeIds

\* seven proteins over the threshold, the third with the id of the first,
\* and an article with that id too: five protein nodes, no article node
C26_Witness ==
    /\ graph_pc = "out"
    /\ Len(graph_in.results[1].items) = 7
    /\ \A i \in 1..7 : graph_in.results[1].items[i].score >= graph_in.score_threshold
    /\ graph_in.results[1].items[3].id = graph_in.results[1].items[1].id
    /\ graph_in.results[2].items # <<>>
    /\ graph_in.results[2].items[1].id = graph_in.results[1].items[1].id
    /\ graph_in.results[2].items[1].score >= graph_in.score_threshold
    /\ Cardinality(NodesFrom("proteins")) = MaxNodesPerCollection
    /\ NodesFrom("articles") = {}
    /\ NodeIds = {"m1", "m2", "m4", "m5", "m6"}

\* a score equal to the threshold makes a node, a score under it does not
C26_WitnessThreshold ==
    /\ graph_pc = "out"
    /\ graph_in.score_threshold = 60
    /\ Len(graph_in.results[1].items) = 4
    /\ graph_in.results[1].items[2].score < 60
    /\ NodeIds = {"m1", "m3", "m4"}


(***************************************************************************)
(* SpecRepeat: node_encode run for several requests in a row on one        *)
(* embeddings cache.  `calls` is the log of the runs: the request, the     *)
(* cache keys present before and after, the encoders called, whether the   *)
(* run raised, and the vectors node_encode stored in the state.            *)
(***************************************************************************)
\* requests served one after the other
MaxRequests == 2

RepeatRequests ==
    {r \in [text : {None, "kinase inhibitor"},
            sequence : {None, LongSequenceA, LongSequenceB},
            image_path : ImagePaths, structure_path : StructurePaths,
            top_k : {1}, filter_by_genes : {TRUE}, include_summary : {TRUE},
            include_design_candidates : {TRUE}] : TRUE}
\* the encoder that raises while a request is served, if any
RepeatDowns == {{}, {"text"}, {"image"}}

\* the cache key of a modality of a request
KeyOf(r, m) ==
    CASE m = "text" -> <<"text", r.text>>
      [] m = "sequence" -> <<"seq", IF r.sequence = None THEN None ELSE First100(r.sequence)>>
      [] m = "image" -> <<"img", r.image_path>>
      [] OTHER -> <<"struct", r.structure_path>>

\* what the encoder of a modality gives for the input of a request
EncoderOutput(r, m) ==
    CASE m = "text" -> <<"text", r.text>>
      [] m = "sequence" -> <<"sequence", r.sequence>>
      [] m = "image" -> <<"image", r.image_path>>
      [] OTHER -> <<"structure", r.structure_path>>

InitRepeat ==
    /\ ConcIdle
    /\ MmrIdle
    /\ GraphIdle
    /\ lru = EmptyLru /\ default_ttl = NoTtl /\ now = 0
    /\ used = <<>> /\ lastOp = NoOp
    /\ pc = "encode"
    /\ req \in RepeatRequests
    /\ world \in [store : {[points |-> 0, tagged |-> 0, failing |-> {}]}, down : RepeatDowns]
    /\ st = InitialState
    /\ calls = <<>>
    /\ emb_cache = EmptyDict
    /\ response = <<>>

\* node_encode on the initial state of the request
RepeatEncode ==
    /\ pc = "encode"
    /\ LET e == Encode(req, world.down, emb_cache)
       IN  /\ emb_cache' = e.cache
           /\ st' = IF e.raised THEN InitialState ELSE AfterEncode(InitialState, e)
           /\ calls' = Append(calls, [req |-> req, down |-> world.down,
                                      before |-> DOMAIN emb_cache,
                                      cached |-> emb_cache,
                                      after |-> DOMAIN e.cache,
                                      invoked |-> e.invoked, raised |-> e.raised,
                                      vectors |-> IF e.raised THEN EmptyDict ELSE e.vectors])
    /\ pc' = "encoded"
    /\ UNCHANGED <<req, world, response, notPipe>>

\* the next request arrives
RepeatArrive ==
    /\ pc = "encoded"
    /\ Len(calls) < MaxRequests
    /\ req' \in RepeatRequests
    /\ \E down \in RepeatDowns : world' = [world EXCEPT !.down = down]
    /\ pc' = "encode"
    /\ UNCHANGED <<st, calls, emb_cache, response, notPipe>>

NextRepeat ==
    \/ RepeatEncode
    \/ RepeatArrive

SpecRepeat == InitRepeat /\ [][NextRepeat]_vars

\* the modalities node_encode deals with in a logged run: those present,
\* up to the one whose encoder raised out of the node
Handled(c) ==
    {m \in PresentModalities(c.req) :
        \/ m = "text"
        \/ m = "sequence" /\ ~("text" \in c.down /\ "text" \in ToSet(c.invoked))
        \/ m \in {"image", "structure"} /\ ~c.raised}
TimesInvoked(c, m) == Cardinality({i \in 1..Len(c.invoked) : c.invoked[i] = m})
\* the modalities whose encoder was called and gave a vector
EncodedOk(c) == {m \in ToSet(c.invoked) : m \notin c.down}

\* C27: Stage 1 caching.  For each present modality node_encode deals with:
\* if its key is in the embeddings cache the cached bundle is used and the
\* encoder is not called; otherwise the encoder is called once and, if it
\* succeeds, the bundle is stored.  So when a request is immediately
\* repeated, no encoder that succeeded the first time is called again.
C27_StageOneCaching ==
    \A i \in 1..Len(calls) :
        LET c == calls[i]
        IN  /\ \A m \in Handled(c) :
                  IF KeyOf(c.req, m) \in c.before
                  THEN /\ TimesInvoked(c, m) = 0
                       /\ ~c.raised => c.vectors[m] = c.cached[KeyOf(c.req, m)]
                  ELSE /\ TimesInvoked(c, m) = 1
                       /\ m \notin c.down => KeyOf(c.req, m) \in c.after
                       /\ m \in c.down => KeyOf(c.req, m) \notin c.after
            /\ ToSet(c.invoked) \subseteq Handled(c)
            /\ c.before \subseteq c.after
            /\ (i > 1 /\ c.req = calls[i - 1].req) =>
                  EncodedOk(calls[i - 1]) \cap ToSet(c.invoked) = {}

\* a request with text, sequence, image and structure was served with all
\* encoders up, then again: the second run called no encoder
C27_Witness ==
    /\ Len(calls) = 2
    /\ calls[1].req = calls[2].req
    /\ PresentModalities(calls[1].req) = Encoders
    /\ ToSet(calls[1].invoked) = Encoders
    /\ calls[1].down = {}
    /\ calls[2].invoked = <<>>
    /\ DOMAIN calls[2].vectors = Encoders

\* the image encoder failed the first time and is called again in the repeat
C27_WitnessRetry ==
    /\ Len(calls) = 2
    /\ calls[1].req = calls[2].req
    /\ calls[1].down = {"image"}
    /\ "image" \in ToSet(calls[1].invoked)
    /\ "text" \in ToSet(calls[1].invoked)
    /\ calls[2].invoked = <<"image">>


\* C28: cache transparency of Stage 1.  Whatever requests came before, the
\* vector node_encode stores for a modality it encoded or found cached is
\* the encoder's output for this request's own input of that modality.
C28_CacheTransparent ==
    \A i \in 1..Len(calls) :
        \A m \in DOMAIN calls[i].vectors :
            calls[i].vectors[m] = EncoderOutput(calls[i].req, m)

\* what the code gives: the stored vector is the encoder's output for the
\* input of the request that first filled the key; text, image path and
\* structure path are their own keys, a sequence is keyed by its first 100
\* residues
C28_TransparentUpToKey ==
    \A i \in 1..Len(calls) :
        \A m \in DOMAIN calls[i].vectors :
            /\ m # "sequence" => calls[i].vectors[m] = EncoderOutput(calls[i].req, m)
            /\ m = "sequence" =>
                  /\ calls[i].vectors[m][1] = "sequence"
                  /\ First100(calls[i].vectors[m][2]) = First100(calls[i].req.sequence)
                  /\ \/ calls[i].vectors[m] = EncoderOutput(calls[i].req, m)
                     \/ \E j \in 1..(i - 1) :
                           calls[i].vectors[m] = EncoderOutput(calls[j].req, m)

\* after a request with one long sequence, a request with another sequence
\* that has the same first 100 residues got the vector of the first one
C28_Witness ==
    /\ Len(calls) = 2
    /\ calls[1].req.sequence = LongSequenceA
    /\ calls[2].req.sequence = LongSequenceB
    /\ "sequence" \in DOMAIN calls[2].vectors
    /\ calls[2].vectors["sequence"] = <<"sequence", LongSequenceA>>
    /\ calls[2].invoked = <<>>


(***************************************************************************)
(* SpecStats: threads calling MultiLevelCache.get.  cache.get(key) runs    *)
(* under the level's lock and is one step; the counter update that follows *)
(* is outside any lock, its read and its write are two steps.              *)
(***************************************************************************)
\* get calls made in a run
MaxGets == 2

\* a level holding k1, stored without a TTL
LevelWithK1 == LruSet(EmptyLru, "k1", "v1", NoTtl, 0, CacheMaxSize, NoTtl)

InitStats ==
    /\ MmrIdle
    /\ GraphIdle
    /\ PipeIdle
    /\ lru = EmptyLru /\ default_ttl = NoTtl /\ now = 0
    /\ used = <<>> /\ lastOp = NoOp
    /\ lock = None
    /\ snap = [t \in Threads |-> EmptyLru]
    /\ tpc = [t \in Threads |-> "idle"]
    /\ targ = [t \in Threads |-> NoCall]
    /\ tloc = [t \in Threads |-> NoLocals]
    /\ tret = [t \in Threads |-> None]
    /\ levels \in [Levels -> {EmptyLru, LevelWithK1}]
    /\ mstats = [hits |-> [l \in Levels |-> 0], misses |-> [l \in Levels |-> 0]]
    /\ completed = [l \in Levels |-> 0]

GetsStarted ==
    SumOver(completed, Levels) + Cardinality({t \in Threads : tpc[t] # "idle"})

\* a thread calls MultiLevelCache.get(key, level)
StatCall(t) ==
    /\ tpc[t] = "idle"
    /\ GetsStarted < MaxGets
    /\ \E key \in ConcKeys, level \in Levels :
         targ' = [targ EXCEPT ![t] = [op |-> "get", key |-> key, val |-> None,
                                      ttl |-> NoTtl, level |-> level]]
    /\ Goto(t, "m_get")
    /\ UNCHANGED <<tloc, tret, statVars, notStats>>

\* value = cache.get(key)
StatGet(t) ==
    /\ tpc[t] = "m_get"
    /\ LET r == LruGet(levels[targ[t].level], targ[t].key, now)
       IN  /\ levels' = [levels EXCEPT ![targ[t].level] = r.L]
           /\ tret' = [tret EXCEPT ![t] = r.ret]
    /\ Goto(t, "m_read")
    /\ UNCHANGED <<targ, tloc, mstats, completed, notStats>>

\* self._hits.get(level, 0) or self._misses.get(level, 0)
StatRead(t) ==
    /\ tpc[t] = "m_read"
    /\ tloc' = [tloc EXCEPT ![t].tread =
                  IF tret[t] # None THEN mstats.hits[targ[t].level]
                  ELSE mstats.misses[targ[t].level]]
    /\ Goto(t, "m_write")
    /\ UNCHANGED <<targ, tret, statVars, notStats>>

\* self._hits[level] = ... + 1 or self._misses[level] = ... + 1
StatWrite(t) ==
    /\ tpc[t] = "m_write"
    /\ mstats' = IF tret[t] # None
                 THEN [mstats EXCEPT !.hits[targ[t].level] = tloc[t].tread + 1]
                 ELSE [mstats EXCEPT !.misses[targ[t].level] = tloc[t].tread + 1]
    /\ Goto(t, "m_return")
    /\ UNCHANGED <<targ, tloc, tret, levels, completed, notStats>>

\* return value
StatReturn(t) ==
    /\ tpc[t] = "m_return"
    /\ completed' = [completed EXCEPT ![targ[t].level] = @ + 1]
    /\ targ' = [targ EXCEPT ![t] = NoCall]
    /\ tloc' = [tloc EXCEPT ![t] = NoLocals]
    /\ tret' = [tret EXCEPT ![t] = None]
    /\ Goto(t, "idle")
    /\ UNCHANGED <<levels, mstats, notStats>>

NextStats ==
    \/ \E t \in Threads : StatCall(t)
    \/ \E t \in Threads : StatGet(t)
    \/ \E t \in Threads : StatRead(t)
    \/ \E t \in Threads : StatWrite(t)
    \/ \E t \in Threads : StatReturn(t)

SpecStats == InitStats /\ [][NextStats]_vars

Counted(l) == mstats.hits[l] + mstats.misses[l]

\* C29: cache statistics.  Whenever no get call is in progress, on every
\* level hits + misses is the number of get calls that have returned, also
\* when the calls ran in several threads at once.
C29_StatsExact ==
    (\A t \in Threads : tpc[t] = "idle") =>
        \A l \in Levels : Counted(l) = completed[l]

\* what holds with threads: a level's counters never exceed the get calls
\* that returned or have written their count, a level no call was made on
\* stays at zero, and one that a call returned from has counted at least one
C29_NeverOverCounted ==
    \A l \in Levels :
        /\ Counted(l) <= completed[l]
              + Cardinality({t \in Threads : tpc[t] = "m_return" /\ targ[t].level = l})
        /\ completed[l] > 0 => Counted(l) >= 1

\* two gets on one level have returned and one of the two counts is lost
C29_Witness ==
    /\ \A t \in Threads : tpc[t] = "idle"
    /\ completed["embeddings"] = 2
    /\ Counted("embeddings") = 1


\* C30: cache structural invariant.  After any sequence of get, set and
\* clear calls on a level (and any passing of time), the level stores at
\* most max_size entries, no key twice, and the value map, the timestamp
\* map and the TTL map have the same key set.
C30_Structure ==
    /\ Len(lru.cache) <= CacheMaxSize
    /\ Cardinality(OdKeys(lru.cache)) = Len(lru.cache)
    /\ DOMAIN lru.timestamps = OdKeys(lru.cache)
    /\ DOMAIN lru.ttls = OdKeys(lru.cache)

\* a set of a new key on a full level has just evicted the oldest entry
C30_Witness ==
    /\ lastOp.op = "set"
    /\ lastOp.atCapacity
    /\ ~lastOp.wasStored
    /\ Len(lru.cache) = CacheMaxSize
    /\ lastOp.key \in OdKeys(lru.cache)
    /\ OdKeys(lru.cache) # lastOp.keysBefore
    /\ DOMAIN lru.ttls = OdKeys(lru.cache)

\* a get has just removed an expired entry from the three maps
C30_WitnessExpired ==
    /\ lastOp.op = "get"
    /\ lastOp.wasStored
    /\ lastOp.ret = None
    /\ lastOp.key \notin OdKeys(lru.cache)
    /\ lastOp.key \notin DOMAIN lru.timestamps
    /\ lastOp.key \notin DOMAIN lru.ttls
    /\ lru.cache # <<>>

====
